---- MODULE Spec2Model ----
(***************************************************************************)
(* PhalconTraceParser: trace -> call model -> Foundry test.                *)
(*                                                                         *)
(* Modelled components: AbiManager (signature resolver and call decoder),  *)
(* TraceParser (callback classifier, in-region call extraction, callback   *)
(* handler rendering) and FoundryGenerator (trace walk, callback ranges,   *)
(* main replay routine).                                                   *)
(*                                                                         *)
(* Strings are sequences of atoms.  Method names are spelled character by  *)
(* character, so that toLowerCase() and includes() are computed the way    *)
(* the JavaScript computes them; hex data is a sequence of chunks ("0x", a *)
(* selector, a parameter word) whose character lengths AtomLen gives.      *)
(***************************************************************************)
EXTENDS Integers, Sequences, FiniteSets, TLC

(***************************************************************************)
(* String literals of the source                                           *)
(***************************************************************************)
S_flashloan == <<"f","l","a","s","h","l","o","a","n">>
S_executeOperation == <<"e","x","e","c","u","t","e","O","p","e","r","a","t","i","o","n">>
S_receiveFlashLoan == <<"r","e","c","e","i","v","e","F","l","a","s","h","L","o","a","n">>
S_callFunction == <<"c","a","l","l","F","u","n","c","t","i","o","n">>
S_onMorphoFlashLoan == <<"o","n","M","o","r","p","h","o","F","l","a","s","h","L","o","a","n">>
S_morpho == <<"m","o","r","p","h","o">>
S_uniswapV3SwapCallback == <<"u","n","i","s","w","a","p","V","3","S","w","a","p","C","a","l","l","b","a","c","k">>
S_uniswapV3FlashCallback == <<"u","n","i","s","w","a","p","V","3","F","l","a","s","h","C","a","l","l","b","a","c","k">>
S_callback == <<"c","a","l","l","b","a","c","k">>
S_flash == <<"f","l","a","s","h">>
S_loan == <<"l","o","a","n">>
S_flashLoan == <<"f","l","a","s","h","L","o","a","n">>
S_transfer == <<"t","r","a","n","s","f","e","r">>
S_approve == <<"a","p","p","r","o","v","e">>
S_unknown == <<"u","n","k","n","o","w","n">>
S_totallyUnknownMethod == <<"t","o","t","a","l","l","y","U","n","k","n","o","w","n","M","e","t","h","o","d">>
S_execute == <<"e","x","e","c","u","t","e">>
S_unknownFunction_ == <<"u","n","k","n","o","w","n","F","u","n","c","t","i","o","n","_">>
S_method_ == <<"m","e","t","h","o","d","_">>
S_unknownCall == <<"u","n","k","n","o","w","n","C","a","l","l">>

(***************************************************************************)
(* String.prototype operations                                             *)
(***************************************************************************)
LowerTable == ("A" :> "a") @@ ("B" :> "b") @@ ("C" :> "c") @@ ("D" :> "d") @@ ("E" :> "e") @@ ("F" :> "f") @@ ("G" :> "g") @@ ("H" :> "h") @@ ("I" :> "i") @@ ("J" :> "j") @@ ("K" :> "k") @@ ("L" :> "l") @@ ("M" :> "m") @@ ("N" :> "n") @@ ("O" :> "o") @@ ("P" :> "p") @@ ("Q" :> "q") @@ ("R" :> "r") @@ ("S" :> "s") @@ ("T" :> "t") @@ ("U" :> "u") @@ ("V" :> "v") @@ ("W" :> "w") @@ ("X" :> "x") @@ ("Y" :> "y") @@ ("Z" :> "z")

\* s.toLowerCase(): every upper-case letter is replaced, everything else kept
toLowerCase(s) ==
    [k \in DOMAIN s |-> IF s[k] \in DOMAIN LowerTable THEN LowerTable[s[k]] ELSE s[k]]

\* s.includes(pat): pat occurs in s as a contiguous, case-sensitive substring
includes(s, pat) ==
    \E k \in 0..(Len(s) - Len(pat)) : SubSeq(s, k + 1, k + Len(pat)) = pat

\* s.startsWith(pat)
startsWith(s, pat) ==
    Len(s) >= Len(pat) /\ SubSeq(s, 1, Len(pat)) = pat

(***************************************************************************)
(* TraceParser.detectCallbackType                                          *)
(* The method name is lower-cased first; the vocabulary entries it is then *)
(* compared with are the literals of the source, camelCase included.       *)
(***************************************************************************)
detectCallbackType(methodName) ==
    LET method == toLowerCase(methodName) IN
    IF includes(method, S_flashloan) \/ includes(method, S_executeOperation)
        THEN "aave_flashloan"
    ELSE IF includes(method, S_receiveFlashLoan)
        THEN "balancer_flashloan"
    ELSE IF includes(method, S_callFunction)
        THEN "dydx_flashloan"
    ELSE IF includes(method, S_onMorphoFlashLoan) \/ includes(method, S_morpho)
        THEN "morpho_blue_callback"
    ELSE IF includes(method, S_uniswapV3SwapCallback)
        THEN "uniswap_v3_swap"
    ELSE IF includes(method, S_uniswapV3FlashCallback)
        THEN "uniswap_v3_flash"
    ELSE IF includes(method, S_callback)
            /\ (includes(method, S_flash) \/ includes(method, S_loan))
        THEN "generic_flashloan"
    ELSE "unknown_callback"

(***************************************************************************)
(* Hex data, addresses, signatures                                         *)
(***************************************************************************)
\* characters in one atom: "0x" is two, a selector chunk eight hex digits, a
\* parameter word "W" sixty-four, the malformed tail "abcdef" six (the tail of
\* the call data in tests/unit/foundryGenerator.test.js:186); a letter is one
AtomLen(a) ==
    CASE a = "0x" -> 2
      [] a \in {"12345678", "a9059cbb"} -> 8
      [] a = "W" -> 64
      [] a = "abcdef" -> 6
      [] OTHER -> 1

RECURSIVE strLength(_)
\* s.length
strLength(s) == IF s = <<>> THEN 0 ELSE AtomLen(Head(s)) + strLength(Tail(s))

\* callData.slice(0, 10): "0x" and the selector chunk
sliceSelector(callData) == SubSeq(callData, 1, 2)

\* callData.slice(10): what follows the selector
sliceParams(callData) == SubSeq(callData, 3, Len(callData))

\* hex.slice(2) of a string that starts with "0x"
slice2(hex) == Tail(hex)

\* the null of a call record field (signature, params, rawCalldata)
Null == <<"null">>

\* !x for a string-valued field: undefined and '' are the empty sequence
falsy(s) == s = <<>> \/ s = Null

\* address.toLowerCase() on the addresses of the model
AddrLowerTable ==
    ("0x1A" :> "0x1a") @@ ("0x2B" :> "0x2b") @@ ("0x3C" :> "0x3c")

addrToLowerCase(a) ==
    IF a \in DOMAIN AddrLowerTable THEN AddrLowerTable[a] ELSE a

\* `${methodName}()`
emptySignature(methodName) == methodName \o <<"(", ")">>

\* name(type,type,...)
RECURSIVE joinTypes(_)
joinTypes(types) ==
    IF types = <<>> THEN <<>>
    ELSE IF Len(types) = 1 THEN <<types[1]>>
    ELSE <<types[1], ",">> \o joinTypes(Tail(types))

makeSignature(name, types) == name \o <<"(">> \o joinTypes(types) \o <<")">>

(***************************************************************************)
(* Map and Set of JavaScript: insertion-ordered                            *)
(***************************************************************************)
mapHas(m, k) == \E x \in DOMAIN m : m[x][1] = k

mapGet(m, k) == m[CHOOSE x \in DOMAIN m : m[x][1] = k][2]

\* Map.prototype.set: an existing key keeps its position
mapSet(m, k, v) ==
    IF mapHas(m, k)
        THEN [x \in DOMAIN m |-> IF m[x][1] = k THEN <<k, v>> ELSE m[x]]
        ELSE Append(m, <<k, v>>)

\* Set.prototype.add
setAdd(s, e) == IF \E x \in DOMAIN s : s[x] = e THEN s ELSE Append(s, e)

(***************************************************************************)
(* AbiManager                                                              *)
(***************************************************************************)
\* the selectors of the model: one that only the registries may know, and
\* the one of transfer(address,uint256)
UnknownSelector == <<"0x", "12345678">>

TransferSelector == <<"0x", "a9059cbb">>

\* the address of knownContractsConfig, and the functions of its ABI file
KnownContract == "0x796f"

KnownAbi ==
    << [name |-> S_transfer, inputs |-> <<"address", "uint256">>,
        selector |-> TransferSelector] >>

\* AbiManager.loadContractABI: null is the empty ABI
loadContractABI(address) ==
    IF addrToLowerCase(address) = KnownContract THEN KnownAbi ELSE <<>>

\* ethers decode of parameter data against a type list: it raises when the
\* data is shorter than the static head the types need
abiDecodes(types, paramData) ==
    /\ Len(paramData) >= Len(types)
    /\ \A k \in 1..Len(types) : paramData[k] = "W"

\* what a registry answers for a selector when it has an entry: 4byte and
\* Etherface may hold different text signatures for the same selector
FourByteEntry(selector) ==
    [functionName |-> S_approve,
     textSignature |-> makeSignature(S_approve, <<"uint256">>),
     parameters |-> <<"uint256">>,
     found |-> TRUE]

EtherfaceEntry(selector) ==
    [functionName |-> S_execute,
     textSignature |-> makeSignature(S_execute, <<"uint256">>),
     parameters |-> <<"uint256">>,
     found |-> TRUE]

\* the null result of a lookup
NoSignature ==
    [functionName |-> <<>>, textSignature |-> <<>>, parameters |-> <<>>,
     found |-> FALSE]

\* one external lookup: it answers with an entry, answers empty, or raises
Outcomes == {"hit", "empty", "throw"}

\* capability.lookupFunctionSignature(selector) under a given outcome
callRegistry(entry, outcome) ==
    [threw |-> outcome = "throw",
     value |-> IF outcome = "hit" THEN entry ELSE NoSignature]

\* lookupFunctionSignatureWithFallback without the cache test of lines 85-87:
\* the registries are asked on every call
lookup_noCacheCheck(cache, selector, o1, o2) ==
    LET c1 == callRegistry(FourByteEntry(selector), o1)
        r1 == IF c1.threw THEN NoSignature ELSE c1.value
        askSecond == ~r1.found
        c2 == callRegistry(EtherfaceEntry(selector), o2)
        r2 == IF ~askSecond THEN r1
              ELSE IF c2.threw THEN NoSignature ELSE c2.value
    IN  [threw |-> FALSE,
         result |-> r2,
         cache |-> mapSet(cache, selector, r2),
         calls |-> IF askSecond THEN <<"4byte", "etherface">> ELSE <<"4byte">>]

\* lookupFunctionSignatureWithFallback asking Etherface whatever 4byte has
\* answered, and keeping the answer of Etherface when it has one
lookup_secondAlways(cache, selector, o1, o2) ==
    IF mapHas(cache, selector)
        THEN [threw |-> FALSE, result |-> mapGet(cache, selector),
              cache |-> cache, calls |-> <<>>]
    ELSE
        LET c1 == callRegistry(FourByteEntry(selector), o1)
            r1 == IF c1.threw THEN NoSignature ELSE c1.value
            c2 == callRegistry(EtherfaceEntry(selector), o2)
            r2 == IF ~c2.threw /\ c2.value.found THEN c2.value ELSE r1
        IN  [threw |-> FALSE,
             result |-> r2,
             cache |-> mapSet(cache, selector, r2),
             calls |-> <<"4byte", "etherface">>]

\* lookupFunctionSignatureWithFallback without its two try/catch: the raise
\* of a registry reaches the caller
lookup_noCatch(cache, selector, o1, o2) ==
    IF mapHas(cache, selector)
        THEN [threw |-> FALSE, result |-> mapGet(cache, selector),
              cache |-> cache, calls |-> <<>>]
    ELSE
        LET c1 == callRegistry(FourByteEntry(selector), o1)
            askSecond == ~c1.threw /\ ~c1.value.found
            c2 == callRegistry(EtherfaceEntry(selector), o2)
            r2 == IF askSecond THEN c2.value ELSE c1.value
            threw == c1.threw \/ (askSecond /\ c2.threw)
        IN  [threw |-> threw,
             result |-> r2,
             cache |-> IF threw THEN cache ELSE mapSet(cache, selector, r2),
             calls |-> IF askSecond THEN <<"4byte", "etherface">> ELSE <<"4byte">>]

\* AbiManager.lookupFunctionSignatureWithFallback.  cache is signatureCache;
\* o1 and o2 are what the 4byte and the Etherface capability do when asked.
\* Returns [threw, result, cache, calls]: calls are the external calls made.
lookupFunctionSignatureWithFallback(cache, selector, o1, o2) ==
    IF mapHas(cache, selector)
        THEN [threw |-> FALSE, result |-> mapGet(cache, selector),
              cache |-> cache, calls |-> <<>>]
    ELSE
        LET c1 == callRegistry(FourByteEntry(selector), o1)
            \* try { if (fourByteResult) result = fourByteResult } catch { warn }
            r1 == IF c1.threw THEN NoSignature ELSE c1.value
            askSecond == ~r1.found
            c2 == callRegistry(EtherfaceEntry(selector), o2)
            \* if (!result) try { ... } catch { warn }
            r2 == IF ~askSecond THEN r1
                  ELSE IF c2.threw THEN NoSignature ELSE c2.value
        IN  [threw |-> FALSE,
             result |-> r2,
             cache |-> mapSet(cache, selector, r2),
             calls |-> IF askSecond THEN <<"4byte", "etherface">> ELSE <<"4byte">>]

\* the null of decodeFunctionCall
NoDecodedCall ==
    [found |-> FALSE, name |-> <<>>, signature |-> <<>>, inputs |-> <<>>,
     hasDecodedData |-> FALSE, decodedData |-> <<>>, tier |-> "none"]

RECURSIVE scanAbi_noCatch(_, _)
\* the loop of scanAbi without its try/catch: the raise of decodeFunctionData
\* on a matching entry leaves decodeFunctionCall
scanAbi_noCatch(abi, callData) ==
    IF abi = <<>> THEN [threw |-> FALSE, result |-> NoDecodedCall]
    ELSE LET func == Head(abi) IN
         IF func.selector = sliceSelector(callData)
         THEN IF abiDecodes(func.inputs, sliceParams(callData))
              THEN [threw |-> FALSE,
                    result |-> [found |-> TRUE, name |-> func.name,
                                signature |-> makeSignature(func.name, func.inputs),
                                inputs |-> func.inputs, hasDecodedData |-> TRUE,
                                decodedData |-> SubSeq(sliceParams(callData), 1, Len(func.inputs)),
                                tier |-> "abi"]]
              ELSE [threw |-> TRUE, result |-> NoDecodedCall]
         ELSE scanAbi_noCatch(Tail(abi), callData)

\* the loop of scanAbi leaving after the first entry of the ABI, whether or
\* not that entry matches
scanAbi_firstOnly(abi, callData) ==
    IF abi = <<>> THEN [threw |-> FALSE, result |-> NoDecodedCall]
    ELSE LET func == Head(abi) IN
         IF func.selector = sliceSelector(callData)
            /\ abiDecodes(func.inputs, sliceParams(callData))
         THEN [threw |-> FALSE,
               result |-> [found |-> TRUE, name |-> func.name,
                           signature |-> makeSignature(func.name, func.inputs),
                           inputs |-> func.inputs, hasDecodedData |-> TRUE,
                           decodedData |-> SubSeq(sliceParams(callData), 1, Len(func.inputs)),
                           tier |-> "abi"]]
         ELSE [threw |-> FALSE, result |-> NoDecodedCall]

RECURSIVE scanAbi(_, _)
\* the loop over the ABI's functions (abiManager.js:137-154): the first entry
\* whose selector matches and whose decodeFunctionData does not raise is
\* returned; a raise is caught inside the loop, which goes on to the next entry
scanAbi(abi, callData) ==
    IF abi = <<>> THEN [threw |-> FALSE, result |-> NoDecodedCall]
    ELSE LET func == Head(abi) IN
         IF func.selector = sliceSelector(callData)
            /\ abiDecodes(func.inputs, sliceParams(callData))
         THEN [threw |-> FALSE,
               result |-> [found |-> TRUE, name |-> func.name,
                           signature |-> makeSignature(func.name, func.inputs),
                           inputs |-> func.inputs, hasDecodedData |-> TRUE,
                           decodedData |-> SubSeq(sliceParams(callData), 1, Len(func.inputs)),
                           tier |-> "abi"]]
         ELSE scanAbi(Tail(abi), callData)

\* decodeFunctionCall with a length test that lets three bytes through
decodeFunctionCall_threeBytes(cache, callData, abi, o1, o2) ==
    IF falsy(callData) \/ strLength(callData) < 8
        THEN [threw |-> FALSE, result |-> NoDecodedCall, cache |-> cache, calls |-> <<>>]
    ELSE
        LET local == IF abi # <<>> THEN scanAbi(abi, callData)
                     ELSE [threw |-> FALSE, result |-> NoDecodedCall] IN
        IF local.threw
            THEN [threw |-> TRUE, result |-> NoDecodedCall, cache |-> cache, calls |-> <<>>]
        ELSE IF local.result.found
            THEN [threw |-> FALSE, result |-> local.result, cache |-> cache, calls |-> <<>>]
        ELSE
            LET api == lookupFunctionSignatureWithFallback(cache, sliceSelector(callData), o1, o2) IN
            \* try { ... } catch (error) { console.warn }: a raise falls through to null
            IF api.threw
                THEN [threw |-> FALSE, result |-> NoDecodedCall, cache |-> api.cache,
                      calls |-> api.calls]
            ELSE
            [threw |-> FALSE,
             result |-> IF api.result.found
                        THEN [found |-> TRUE, name |-> api.result.functionName,
                              signature |-> api.result.textSignature,
                              inputs |-> api.result.parameters,
                              hasDecodedData |-> FALSE, decodedData |-> <<>>,
                              tier |-> "api"]
                        ELSE NoDecodedCall,
             cache |-> api.cache, calls |-> api.calls]

\* AbiManager.decodeFunctionCall.  Returns [threw, result, cache, calls].
decodeFunctionCall(cache, callData, abi, o1, o2) ==
    IF falsy(callData) \/ strLength(callData) < 10
        THEN [threw |-> FALSE, result |-> NoDecodedCall, cache |-> cache, calls |-> <<>>]
    ELSE
        LET local == IF abi # <<>> THEN scanAbi(abi, callData)
                     ELSE [threw |-> FALSE, result |-> NoDecodedCall] IN
        IF local.threw
            THEN [threw |-> TRUE, result |-> NoDecodedCall, cache |-> cache, calls |-> <<>>]
        ELSE IF local.result.found
            THEN [threw |-> FALSE, result |-> local.result, cache |-> cache, calls |-> <<>>]
        ELSE
            LET api == lookupFunctionSignatureWithFallback(cache, sliceSelector(callData), o1, o2) IN
            \* try { ... } catch (error) { console.warn }: a raise falls through to null
            IF api.threw
                THEN [threw |-> FALSE, result |-> NoDecodedCall, cache |-> api.cache,
                      calls |-> api.calls]
            ELSE
            [threw |-> FALSE,
             result |-> IF api.result.found
                        THEN [found |-> TRUE, name |-> api.result.functionName,
                              signature |-> api.result.textSignature,
                              inputs |-> api.result.parameters,
                              hasDecodedData |-> FALSE, decodedData |-> <<>>,
                              tier |-> "api"]
                        ELSE NoDecodedCall,
             cache |-> api.cache, calls |-> api.calls]

(***************************************************************************)
(* Trace entries                                                           *)
(* An invocation carries both spellings of each endpoint field; the one    *)
(* the trace does not use is "" (undefined).  decodedMethod.name = <<>>    *)
(* stands for an invocation without a pre-decoded method.                  *)
(***************************************************************************)
NoDecodedMethod == [name |-> <<>>, signature |-> <<>>, callParams |-> <<>>]

\* entry.invocations || (entry.invocation ? [entry.invocation] : [])
invocationsOf(entry) ==
    IF entry.hasInvocations THEN entry.invocations ELSE entry.invocation

\* invocation.from || invocation.fromAddress
fromAddrOf(invocation) ==
    IF invocation.from # "" THEN invocation.from ELSE invocation.fromAddress

\* fromAddr && fromAddr.toLowerCase() === mainAddress.toLowerCase()
isFromMain(invocation, mainAddress) ==
    /\ fromAddrOf(invocation) # ""
    /\ addrToLowerCase(fromAddrOf(invocation)) = addrToLowerCase(mainAddress)

(***************************************************************************)
(* FoundryGenerator: building the call model                               *)
(***************************************************************************)
\* `addr${counter}` and its toUpperCase()
addrVar(counter) == <<"addr", counter>>

varToUpperCase(v) == IF v[1] = "addr" THEN <<"ADDR", v[2]>> ELSE v

\* _registerAddress looking the address up as it was passed, without the
\* toLowerCase() of its first line
\* _registerAddress with a counter that advances on every call
registerAddress_countsCalls(address, addressRegistry, addressCounter) ==
    LET lowerAddr == addrToLowerCase(address) IN
    IF mapHas(addressRegistry, lowerAddr)
        THEN [addressRegistry |-> addressRegistry, addressCounter |-> addressCounter + 1,
              varName |-> mapGet(addressRegistry, lowerAddr)]
        ELSE [addressRegistry |-> mapSet(addressRegistry, lowerAddr, addrVar(addressCounter + 1)),
              addressCounter |-> addressCounter + 1,
              varName |-> addrVar(addressCounter + 1)]

registerAddress_caseSensitive(address, addressRegistry, addressCounter) ==
    IF mapHas(addressRegistry, address)
        THEN [addressRegistry |-> addressRegistry, addressCounter |-> addressCounter,
              varName |-> mapGet(addressRegistry, address)]
        ELSE [addressRegistry |-> mapSet(addressRegistry, address, addrVar(addressCounter + 1)),
              addressCounter |-> addressCounter + 1,
              varName |-> addrVar(addressCounter + 1)]

\* FoundryGenerator._registerAddress / TraceParser._registerAddress (the two
\* are the same code).  address is defined here; the caller models the raise
\* of undefined.toLowerCase().
registerAddress(address, addressRegistry, addressCounter) ==
    LET lowerAddr == addrToLowerCase(address) IN
    IF mapHas(addressRegistry, lowerAddr)
        THEN [addressRegistry |-> addressRegistry, addressCounter |-> addressCounter,
              varName |-> mapGet(addressRegistry, lowerAddr)]
        ELSE [addressRegistry |-> mapSet(addressRegistry, lowerAddr, addrVar(addressCounter + 1)),
              addressCounter |-> addressCounter + 1,
              varName |-> addrVar(addressCounter + 1)]

\* FoundryGenerator._updateContractInterface / TraceParser._updateContractInterface
updateContractInterface(address, signature, contracts) ==
    IF mapHas(contracts, address)
        THEN mapSet(contracts, address, setAdd(mapGet(contracts, address), signature))
        ELSE mapSet(contracts, address, <<signature>>)

\* FoundryGenerator._convertAbiInputsToParams
convertAbiInputsToParams(decodedCall) ==
    IF decodedCall.hasDecodedData
        THEN [k \in 1..Len(decodedCall.inputs) |->
                 [type |-> decodedCall.inputs[k], value |-> <<decodedCall.decodedData[k]>>]]
        ELSE <<>>

\* the bytes parameter that carries the whole call data
rawBytesParam(callData) == <<[type |-> "bytes", value |-> callData]>>

\* FoundryGenerator._decodeParametersFromCallData.  Returns [threw, params]:
\* the raise of the ABI coder is caught (catch (error) at line 216) and the
\* call data comes back as one bytes parameter.
decodeParametersFromCallData(callData, apiResult) ==
    IF falsy(callData) \/ strLength(callData) <= 10
        THEN [threw |-> FALSE, params |-> <<>>]
    ELSE IF abiDecodes(apiResult.parameters, sliceParams(callData))
        THEN [threw |-> FALSE,
              params |-> [k \in 1..Len(apiResult.parameters) |->
                             [type |-> apiResult.parameters[k],
                              value |-> <<sliceParams(callData)[k]>>]]]
    ELSE [threw |-> FALSE, params |-> rawBytesParam(callData)]

\* invocation.to || invocation.address
targetOf(invocation) ==
    IF invocation.to # "" THEN invocation.to ELSE invocation.address

\* invocation.decodedMethod && invocation.decodedMethod.name
hasDecodedMethod(invocation) == invocation.decodedMethod.name # <<>>

\* the else-if branch: no pre-decoded method, and invocation.selector is set
hasSelectorOnly(invocation) ==
    ~hasDecodedMethod(invocation) /\ ~falsy(invocation.selector)

\* the result of a decode or of a lookup that is not made
notAsked(cache) ==
    [threw |-> FALSE, result |-> NoDecodedCall, cache |-> cache, calls |-> <<>>]

\* _processInvocation, lines 125-129: decodedCall, the decode against the
\* local ABI of the target when there is one and the call data is not empty
processDecodedCall(invocation, cache, o1, o2) ==
    IF /\ hasSelectorOnly(invocation)
       /\ loadContractABI(targetOf(invocation)) # <<>>
       /\ ~falsy(invocation.callData)
       /\ invocation.callData # <<"0x">>
    THEN decodeFunctionCall(cache, invocation.callData,
                            loadContractABI(targetOf(invocation)), o1, o2)
    ELSE notAsked(cache)

\* _processInvocation, line 137 (and traceParser.js:154): apiResult, the
\* resolver's answer for invocation.selector when the ABI gave nothing
processApiResult(invocation, dec, o1, o2) ==
    IF hasSelectorOnly(invocation) /\ ~dec.threw /\ ~dec.result.found
    THEN lookupFunctionSignatureWithFallback(dec.cache, invocation.selector, o1, o2)
    ELSE [threw |-> FALSE, result |-> NoSignature, cache |-> dec.cache, calls |-> <<>>]

\* _processInvocation, lines 111-155: methodName, signature, params and
\* useRawCall from the invocation, decodedCall (dec) and apiResult (api)
processResolve(invocation, dec, api) ==
    LET hasDecoded == hasDecodedMethod(invocation)
        hasSelector == hasSelectorOnly(invocation)
        useRawCall ==
            \/ hasSelector /\ ~dec.result.found /\ ~api.result.found
            \/ ~hasDecoded /\ ~hasSelector /\ ~falsy(invocation.callData)
               /\ invocation.callData # <<"0x">>
        methodName ==
            IF hasDecoded THEN invocation.decodedMethod.name
            ELSE IF hasSelector THEN
                IF dec.result.found THEN dec.result.name
                ELSE IF api.result.found THEN api.result.functionName
                ELSE S_unknownFunction_ \o invocation.selector
            ELSE IF useRawCall THEN S_unknownCall
            ELSE S_unknown
    IN  [useRawCall |-> useRawCall,
         methodName |-> methodName,
         signature |->
            IF hasDecoded THEN
                IF ~falsy(invocation.decodedMethod.signature)
                    THEN invocation.decodedMethod.signature
                    ELSE emptySignature(invocation.decodedMethod.name)
            ELSE IF hasSelector /\ dec.result.found THEN dec.result.signature
            ELSE IF hasSelector /\ api.result.found THEN api.result.textSignature
            ELSE emptySignature(S_unknown),
         params |->
            IF hasDecoded THEN invocation.decodedMethod.callParams
            ELSE IF hasSelector /\ dec.result.found THEN convertAbiInputsToParams(dec.result)
            ELSE IF hasSelector /\ api.result.found
                THEN decodeParametersFromCallData(invocation.callData, api.result).params
            ELSE <<>>]

\* _processInvocation, lines 157-174: the address is registered, the
\* interface of the target updated and the call pushed.  r is what
\* processResolve returns.  loadContractABI(undefined) and
\* _registerAddress(undefined) raise a TypeError.
processPush(invocation, id, st, dec, api, r) ==
    IF targetOf(invocation) = "" \/ dec.threw \/ api.threw
    THEN [threw |-> TRUE, st |-> st, calls |-> <<>>]
    ELSE
    LET reg == registerAddress(targetOf(invocation), st.addressRegistry, st.addressCounter)
    IN  [threw |-> FALSE,
         st |-> [contracts |->
                     IF ~r.useRawCall /\ ~falsy(r.signature)
                        /\ r.signature # emptySignature(S_unknown)
                     THEN updateContractInterface(targetOf(invocation), r.signature,
                                                  st.contracts)
                     ELSE st.contracts,
                 methodCalls |->
                     Append(st.methodCalls,
                            [to |-> targetOf(invocation),
                             addressVar |-> reg.varName,
                             methodName |-> r.methodName,
                             signature |-> IF r.useRawCall THEN Null ELSE r.signature,
                             \* params is null for a raw call; the renderer reads it
                             \* only through `!params || params.length === 0`
                             params |-> IF r.useRawCall THEN <<>> ELSE r.params,
                             value |-> IF invocation.value # "" THEN invocation.value
                                       ELSE "0",
                             rawCalldata |-> IF r.useRawCall
                                             THEN (IF ~falsy(invocation.callData)
                                                   THEN invocation.callData ELSE <<"0x">>)
                                             ELSE Null,
                             id |-> id]),
                 addressRegistry |-> reg.addressRegistry,
                 addressCounter |-> reg.addressCounter,
                 signatureCache |-> api.cache],
         calls |-> dec.calls \o api.calls]

\* _processInvocation once apiResult is known
processWithApiResult(invocation, id, st, dec, api) ==
    processPush(invocation, id, st, dec, api, processResolve(invocation, dec, api))

\* _processInvocation once decodedCall is known
processWithDecodedCall(invocation, id, st, dec, o1, o2) ==
    processWithApiResult(invocation, id, st, dec,
                         processApiResult(invocation, dec, o1, o2))

\* FoundryGenerator._processInvocation.  st is the model under construction
\* ([contracts, methodCalls, addressRegistry, addressCounter, signatureCache]).
\* id is the key of the entry the invocation comes from; the call record
\* keeps it so that a call can be traced back to its node (the source record
\* has no such field).  Returns [threw, st, calls].
processInvocation(invocation, id, st, o1, o2) ==
    processWithDecodedCall(invocation, id, st,
                           processDecodedCall(invocation, st.signatureCache, o1, o2),
                           o1, o2)

\* the invocations of the trace in Object.entries order, each with the key
\* of its entry and its position: <<id, entry index, invocation index>>
RECURSIVE entryItems(_, _, _)
entryItems(dataMap, e, j) ==
    IF e > Len(dataMap) THEN <<>>
    ELSE IF j > Len(invocationsOf(dataMap[e])) THEN entryItems(dataMap, e + 1, 1)
    ELSE <<[id |-> dataMap[e].id, e |-> e, j |-> j]>> \o entryItems(dataMap, e, j + 1)

invocationAt(dataMap, item) == invocationsOf(dataMap[item.e])[item.j]

RECURSIVE selectItems(_, _, _, _)
\* the items whose invocation comes from the main address and whose key lies
\* strictly between lo and hi
selectItems(items, dataMap, mainAddress, bounds) ==
    IF items = <<>> THEN <<>>
    ELSE LET rest == selectItems(Tail(items), dataMap, mainAddress, bounds)
             it == Head(items)
         IN  IF /\ isFromMain(invocationAt(dataMap, it), mainAddress)
                /\ it.id > bounds[1] /\ it.id < bounds[2]
             THEN <<it>> \o rest ELSE rest

\* what the loops of _processTraceData visit and pass to _processInvocation
processItems(dataMap, mainAddress) ==
    selectItems(entryItems(dataMap, 1, 1), dataMap, mainAddress, <<-1, 1000000>>)

\* the flashloanPatterns of _findCallbackRanges
flashloanPatterns ==
    <<S_flashloan, S_executeOperation, S_receiveFlashLoan, S_callFunction>>

\* "estimate callback range": endId = startId + 50
EstimateRange == 50

\* invocation.decodedMethod?.name || invocation.selector || 'unknown'
rangeMethodName(invocation) ==
    IF invocation.decodedMethod.name # <<>> THEN invocation.decodedMethod.name
    ELSE IF ~falsy(invocation.selector) THEN invocation.selector
    ELSE S_unknown

\* flashloanPatterns.some(p => methodName.toLowerCase().includes(p.toLowerCase()))
matchesFlashloanPattern(methodName) ==
    \E k \in DOMAIN flashloanPatterns :
        includes(toLowerCase(methodName), toLowerCase(flashloanPatterns[k]))

RECURSIVE rangesOf(_, _)
rangesOf(items, dataMap) ==
    IF items = <<>> THEN <<>>
    ELSE LET invocation == invocationAt(dataMap, Head(items))
             rest == rangesOf(Tail(items), dataMap)
         IN  IF matchesFlashloanPattern(rangeMethodName(invocation))
             THEN <<[type |-> "flashloan",
                     startId |-> Head(items).id,
                     endId |-> Head(items).id + EstimateRange,
                     methodName |-> rangeMethodName(invocation),
                     contractAddress |-> IF invocation.to # "" THEN invocation.to
                                         ELSE invocation.address,
                     callData |-> invocation.callData]>> \o rest
             ELSE rest

\* FoundryGenerator._findCallbackRanges
findCallbackRanges(dataMap, mainAddress) ==
    rangesOf(processItems(dataMap, mainAddress), dataMap)

(***************************************************************************)
(* TraceParser.extractCallsInFlashloanRange                                *)
(***************************************************************************)
\* what the loop over id = startId + 1 .. endId - 1 visits: the main-address
\* invocations of the entries with such a key, in ascending key order
rangeItems(dataMap, mainAddress, range) ==
    selectItems(entryItems(dataMap, 1, 1), dataMap, mainAddress,
                <<range.startId, range.endId>>)

\* `method_${invocation.selector.slice(2)}`
fallbackMethodName(selector) == S_method_ \o slice2(selector)

\* extractCallsInFlashloanRange, lines 125-128: decodedCall; the target is
\* read from invocation.to alone and '0x' call data is tried too
extractDecodedCall(invocation, cache, o1, o2) ==
    IF /\ hasSelectorOnly(invocation)
       /\ loadContractABI(invocation.to) # <<>>
       /\ ~falsy(invocation.callData)
    THEN decodeFunctionCall(cache, invocation.callData,
                            loadContractABI(invocation.to), o1, o2)
    ELSE notAsked(cache)

\* extractCallsInFlashloanRange, lines 150-248: methodName, signature and
\* params from the invocation, decodedCall (dec) and apiResult (api), and
\* whether line 228 stores the resolved method into the trace
extractResolve(invocation, dec, api) ==
    LET hasDecoded == hasDecodedMethod(invocation)
        hasSelector == hasSelectorOnly(invocation)
        \* try { ... } catch (apiError): a raising lookup leaves apiResult unset
        apiFound == hasSelector /\ ~dec.result.found /\ ~api.threw /\ api.result.found
        hasParamData == ~falsy(invocation.callData) /\ strLength(invocation.callData) > 10
        \* apiDecoded = true sits inside the inner try, after the decode
        apiDecoded == apiFound /\ hasParamData
                      /\ abiDecodes(api.result.parameters, sliceParams(invocation.callData))
        apiParams ==
            IF apiDecoded
                THEN [k \in 1..Len(api.result.parameters) |->
                         [type |-> api.result.parameters[k],
                          value |-> <<sliceParams(invocation.callData)[k]>>]]
                ELSE rawBytesParam(invocation.callData)
        methodName ==
            IF hasDecoded THEN invocation.decodedMethod.name
            ELSE IF hasSelector THEN
                IF dec.result.found THEN dec.result.name
                ELSE IF apiDecoded THEN api.result.functionName
                ELSE fallbackMethodName(invocation.selector)
            ELSE S_unknown
    IN  [methodName |-> methodName,
         signature |->
            IF hasDecoded THEN
                IF ~falsy(invocation.decodedMethod.signature)
                    THEN invocation.decodedMethod.signature
                    ELSE emptySignature(invocation.decodedMethod.name)
            ELSE IF hasSelector THEN
                IF dec.result.found THEN dec.result.signature
                ELSE IF apiDecoded THEN api.result.textSignature
                ELSE emptySignature(fallbackMethodName(invocation.selector))
            ELSE emptySignature(S_unknown),
         params |->
            IF hasDecoded THEN invocation.decodedMethod.callParams
            ELSE IF hasSelector THEN
                IF dec.result.found THEN
                    IF dec.result.hasDecodedData
                        THEN convertAbiInputsToParams(dec.result)
                        ELSE rawBytesParam(invocation.callData)
                ELSE IF apiDecoded THEN apiParams
                ELSE IF ~falsy(invocation.callData)
                    THEN rawBytesParam(invocation.callData) ELSE <<>>
            ELSE <<>>,
         \* line 228: invocation.decodedMethod = { name, signature, callParams }
         stored |-> apiFound /\ hasParamData,
         storedMethod |-> [name |-> api.result.functionName,
                           signature |-> api.result.textSignature,
                           callParams |-> apiParams]]

\* extractCallsInFlashloanRange, lines 250-263: the address is registered,
\* the interface of the target updated and the call pushed.
\* loadContractABI(invocation.to) and _registerAddress(invocation.to) raise a
\* TypeError when the trace names the target `address`.
extractPush(invocation, id, st, dec, api, r) ==
    LET call == [to |-> invocation.to,
                 addressVar |-> IF invocation.to = "" THEN <<>>
                                ELSE registerAddress(invocation.to, st.addressRegistry,
                                                     st.addressCounter).varName,
                 methodName |-> r.methodName,
                 signature |-> r.signature,
                 params |-> r.params,
                 value |-> IF invocation.value # "" THEN invocation.value ELSE "0",
                 callData |-> invocation.callData,
                 id |-> id]
    IN  IF invocation.to = "" \/ dec.threw
        THEN [threw |-> TRUE, st |-> st, call |-> call, invocation |-> invocation,
              calls |-> <<>>]
        ELSE
        LET reg == registerAddress(invocation.to, st.addressRegistry, st.addressCounter)
        IN  [threw |-> FALSE,
             st |-> [contracts |-> updateContractInterface(invocation.to, r.signature,
                                                           st.contracts),
                     methodCalls |-> st.methodCalls,
                     addressRegistry |-> reg.addressRegistry,
                     addressCounter |-> reg.addressCounter,
                     signatureCache |-> api.cache],
             call |-> call,
             invocation |-> IF r.stored
                            THEN [invocation EXCEPT !.decodedMethod = r.storedMethod]
                            ELSE invocation,
             calls |-> dec.calls \o api.calls]

\* the loop body once apiResult is known
extractWithApiResult(invocation, id, st, dec, api) ==
    extractPush(invocation, id, st, dec, api, extractResolve(invocation, dec, api))

\* the loop body once decodedCall is known
extractWithDecodedCall(invocation, id, st, dec, o1, o2) ==
    extractWithApiResult(invocation, id, st, dec,
                         processApiResult(invocation, dec, o1, o2))

\* the body of the loop for one main-address invocation (traceParser.js:113-264).
\* Returns [threw, st, call, invocation, calls]; invocation is the trace's
\* invocation afterwards.
extractInvocation(invocation, id, st, o1, o2) ==
    extractWithDecodedCall(invocation, id, st,
                           extractDecodedCall(invocation, st.signatureCache, o1, o2),
                           o1, o2)

(***************************************************************************)
(* FoundryGenerator: rendering the main replay routine                     *)
(***************************************************************************)
\* _generateSingleCall with the value test ahead of the raw-call test
generateSingleCall_valueFirst(call) ==
    LET hasValue == call.value # "" /\ call.value # "0"
        blank == [form |-> "none", addressVar |-> varToUpperCase(call.addressVar),
                  methodName |-> call.methodName, value |-> "", hex |-> <<>>,
                  signature |-> <<>>, id |-> call.id]
    IN
    IF hasValue THEN
        [blank EXCEPT !.form = "value", !.value = call.value,
                      !.signature = call.signature]
    ELSE IF falsy(call.signature) /\ call.rawCalldata # Null THEN
        LET hexData ==
                IF call.rawCalldata = <<"0x">>
                   /\ startsWith(call.methodName, S_unknownFunction_ \o <<"0x">>)
                THEN SubSeq(call.methodName, Len(S_unknownFunction_) + 1, Len(call.methodName))
                ELSE call.rawCalldata
            dataToUse == IF startsWith(hexData, <<"0x">>) THEN slice2(hexData) ELSE hexData
        IN  [blank EXCEPT !.form = "raw", !.hex = dataToUse]
    ELSE IF ~falsy(call.signature) THEN
        [blank EXCEPT !.form = "typed", !.signature = call.signature]
    ELSE blank

\* _generateSingleCall without its last branch: a call with a signature and
\* no value gets the comment line alone
generateSingleCall_noInterfaceCall(call) ==
    LET hasValue == call.value # "" /\ call.value # "0"
        blank == [form |-> "none", addressVar |-> varToUpperCase(call.addressVar),
                  methodName |-> call.methodName, value |-> "", hex |-> <<>>,
                  signature |-> <<>>, id |-> call.id]
    IN
    IF falsy(call.signature) /\ call.rawCalldata # Null THEN
        LET hexData ==
                IF call.rawCalldata = <<"0x">>
                   /\ startsWith(call.methodName, S_unknownFunction_ \o <<"0x">>)
                THEN SubSeq(call.methodName, Len(S_unknownFunction_) + 1, Len(call.methodName))
                ELSE call.rawCalldata
            dataToUse == IF startsWith(hexData, <<"0x">>) THEN slice2(hexData) ELSE hexData
        IN  [blank EXCEPT !.form = "raw",
                          !.value = IF hasValue THEN call.value ELSE "",
                          !.hex = dataToUse]
    ELSE IF hasValue THEN
        [blank EXCEPT !.form = "value", !.value = call.value,
                      !.signature = call.signature]
    ELSE blank

\* _generateSingleCall rebuilding the payload from the selector in the
\* synthetic name whatever the retained call data holds
generateSingleCall_selectorOnly(call) ==
    LET hasValue == call.value # "" /\ call.value # "0"
        blank == [form |-> "none", addressVar |-> varToUpperCase(call.addressVar),
                  methodName |-> call.methodName, value |-> "", hex |-> <<>>,
                  signature |-> <<>>, id |-> call.id]
    IN
    IF falsy(call.signature) /\ call.rawCalldata # Null THEN
        LET hexData ==
                IF startsWith(call.methodName, S_unknownFunction_ \o <<"0x">>)
                THEN SubSeq(call.methodName, Len(S_unknownFunction_) + 1, Len(call.methodName))
                ELSE call.rawCalldata
            dataToUse == IF startsWith(hexData, <<"0x">>) THEN slice2(hexData) ELSE hexData
        IN  [blank EXCEPT !.form = "raw",
                          !.value = IF hasValue THEN call.value ELSE "",
                          !.hex = dataToUse]
    ELSE IF hasValue THEN
        [blank EXCEPT !.form = "value", !.value = call.value,
                      !.signature = call.signature]
    ELSE IF ~falsy(call.signature) THEN
        [blank EXCEPT !.form = "typed", !.signature = call.signature]
    ELSE blank

\* FoundryGenerator._generateSingleCall: the statement emitted for one call.
\* form "none" is the path on which only the `// methodName` comment is
\* written; id is the key of the node the call comes from.
generateSingleCall(call) ==
    LET hasValue == call.value # "" /\ call.value # "0"
        blank == [form |-> "none", addressVar |-> varToUpperCase(call.addressVar),
                  methodName |-> call.methodName, value |-> "", hex |-> <<>>,
                  signature |-> <<>>, id |-> call.id]
    IN
    IF falsy(call.signature) /\ call.rawCalldata # Null THEN
        LET hexData ==
                IF call.rawCalldata = <<"0x">>
                   /\ startsWith(call.methodName, S_unknownFunction_ \o <<"0x">>)
                \* call.methodName.replace('unknownFunction_', '')
                THEN SubSeq(call.methodName, Len(S_unknownFunction_) + 1, Len(call.methodName))
                ELSE call.rawCalldata
            dataToUse == IF startsWith(hexData, <<"0x">>) THEN slice2(hexData) ELSE hexData
        IN  [blank EXCEPT !.form = "raw",
                          !.value = IF hasValue THEN call.value ELSE "",
                          !.hex = dataToUse]
    ELSE IF hasValue THEN
        [blank EXCEPT !.form = "value", !.value = call.value,
                      !.signature = call.signature]
    ELSE IF ~falsy(call.signature) THEN
        [blank EXCEPT !.form = "typed", !.signature = call.signature]
    ELSE blank

RECURSIVE groupKeys(_)
\* the keys of callsByAddress in insertion order: each call.to at its first use
groupKeys(methodCalls) ==
    IF methodCalls = <<>> THEN <<>>
    ELSE LET init == groupKeys(SubSeq(methodCalls, 1, Len(methodCalls) - 1))
             last == methodCalls[Len(methodCalls)].to
         IN  setAdd(init, last)

RECURSIVE callsTo(_, _)
\* callsByAddress.get(address): the calls to one address, in methodCalls order
callsTo(methodCalls, address) ==
    IF methodCalls = <<>> THEN <<>>
    ELSE IF Head(methodCalls).to = address
        THEN <<Head(methodCalls)>> \o callsTo(Tail(methodCalls), address)
        ELSE callsTo(Tail(methodCalls), address)

RECURSIVE emitGroups(_, _)
emitGroups(keys, methodCalls) ==
    IF keys = <<>> THEN <<>>
    ELSE LET calls == callsTo(methodCalls, Head(keys)) IN
         [k \in 1..Len(calls) |-> generateSingleCall(calls[k])]
            \o emitGroups(Tail(keys), methodCalls)

\* FoundryGenerator._generateMainTestFunction: the statements of
\* testReproduceTrace between vm.startPrank and vm.stopPrank, in text order
generateMainTestFunction(methodCalls) ==
    emitGroups(groupKeys(methodCalls), methodCalls)

(***************************************************************************)
(* TokenManager: enrichment of the addresses of a run                      *)
(***************************************************************************)
RECURSIVE setOf(_)
\* new Set(seq): each element at its first occurrence
setOf(seq) ==
    IF seq = <<>> THEN <<>>
    ELSE setAdd(setOf(SubSeq(seq, 1, Len(seq) - 1)), seq[Len(seq)])

\* FoundryGenerator._getUniqueAddresses: every call.to as the trace spells
\* it, then the (lower-case) keys of the address registry
getUniqueAddresses(methodCalls, addressRegistry) ==
    setOf([k \in DOMAIN methodCalls |-> methodCalls[k].to]
            \o [k \in DOMAIN addressRegistry |-> addressRegistry[k][1]])

\* TokenManager.fetchTokenInfo.  responses says what the chain answers for
\* an address: a pair, an ERC-20 token, nothing, or a raise; the raise is
\* caught (catch (error) at line 836) and null returned.  The explorer
\* lookup that comes first returns null.
fetchTokenInfo(address, responses) ==
    LET a == addrToLowerCase(address) IN
    IF a \in responses.throws THEN [found |-> FALSE, type |-> ""]
    ELSE IF a \in responses.pair THEN [found |-> TRUE, type |-> "UniswapV2Pair"]
    ELSE IF a \in responses.erc20 THEN [found |-> TRUE, type |-> "ERC20"]
    ELSE [found |-> FALSE, type |-> ""]

\* batchFetchTokenInfo: batchSize = 10
BatchSize == 10

(***************************************************************************)
(* FoundryGenerator: interfaces, address constants, callback handlers      *)
(***************************************************************************)
RECURSIVE digits(_)
\* the decimal digits of the counter in `addr${counter}`
digits(n) == IF n < 10 THEN <<n>> ELSE Append(digits(n \div 10), n % 10)

RECURSIVE lexLess(_, _)
\* a.localeCompare(b) < 0 on two digit strings
lexLess(a, b) ==
    IF b = <<>> THEN FALSE
    ELSE IF a = <<>> THEN TRUE
    ELSE IF a[1] # b[1] THEN a[1] < b[1]
    ELSE lexLess(Tail(a), Tail(b))

\* FoundryGenerator._generateAddressComment; tokenInfo.found = FALSE is the
\* undefined of a Map without the address
generateAddressComment(tokenInfo) ==
    IF ~tokenInfo.found THEN <<>>
    ELSE IF tokenInfo.type = "UniswapV2Pair" THEN <<"//", "name">>
    ELSE IF tokenInfo.type = "ERC20" THEN <<"//", "name", "(symbol)">>
    ELSE <<"//", "name">>

\* _generateStateVariables walking the token Map first: the constants of the
\* addresses with token information in the order the lookups completed, then
\* the others in registry order
generateStateVariables_completionOrder(addressRegistry, tokenInfoMap) ==
    LET known == SelectSeq(tokenInfoMap, LAMBDA entry : mapHas(addressRegistry, entry[1]))
        others == SelectSeq(addressRegistry, LAMBDA entry : ~mapHas(tokenInfoMap, entry[1]))
    IN  [k \in DOMAIN known |->
            [varName |-> varToUpperCase(mapGet(addressRegistry, known[k][1])),
             address |-> known[k][1],
             comment |-> generateAddressComment(known[k][2])]]
        \o [k \in DOMAIN others |->
            [varName |-> varToUpperCase(others[k][2]),
             address |-> others[k][1],
             comment |-> generateAddressComment([found |-> FALSE, type |-> ""])]]

\* FoundryGenerator._generateStateVariables: one constant per registry entry,
\* the entries sorted by varA.localeCompare(varB); the comment is that of
\* _generateAddressComment on tokenInfoMap.get(address).  The variable names
\* of a registry are distinct, so the sort has one result: an entry stands
\* behind as many entries as have a smaller name.
generateStateVariables(addressRegistry, tokenInfoMap) ==
    LET before(e) ==
            Cardinality({x \in DOMAIN addressRegistry :
                lexLess(digits(addressRegistry[x][2][2]), digits(addressRegistry[e][2][2]))})
        sortedAddresses ==
            [k \in DOMAIN addressRegistry |->
                addressRegistry[CHOOSE e \in DOMAIN addressRegistry : before(e) = k - 1]]
        comment(address) ==
            generateAddressComment(IF mapHas(tokenInfoMap, address)
                                   THEN mapGet(tokenInfoMap, address)
                                   ELSE [found |-> FALSE, type |-> ""])
    IN  [k \in DOMAIN sortedAddresses |->
            [varName |-> varToUpperCase(sortedAddresses[k][2]),
             address |-> sortedAddresses[k][1],
             comment |-> comment(sortedAddresses[k][1])]]

\* the namePatterns of generateInterfaceName, in Object.entries order
namePatterns ==
    <<[pattern |-> <<"v","a","u","l","t">>,
     keywords |-> <<<<"d","e","p","o","s","i","t">>,
                    <<"w","i","t","h","d","r","a","w">>,
                    <<"t","o","t","a","l","A","s","s","e","t","s">>,
                    <<"t","o","t","a","l","S","u","p","p","l","y">>>>],
      [pattern |-> <<"p","o","o","l">>,
     keywords |-> <<<<"s","w","a","p">>,
                    <<"m","i","n","t">>,
                    <<"b","u","r","n">>,
                    <<"g","e","t","R","e","s","e","r","v","e","s">>>>],
      [pattern |-> <<"r","o","u","t","e","r">>,
     keywords |-> <<<<"s","w","a","p","E","x","a","c","t","T","o","k","e","n","s","F","o","r","T","o","k","e","n","s">>,
                    <<"a","d","d","L","i","q","u","i","d","i","t","y">>,
                    <<"r","e","m","o","v","e","L","i","q","u","i","d","i","t","y">>>>],
      [pattern |-> <<"f","a","c","t","o","r","y">>,
     keywords |-> <<<<"c","r","e","a","t","e","P","a","i","r">>,
                    <<"g","e","t","P","a","i","r">>,
                    <<"a","l","l","P","a","i","r","s">>>>],
      [pattern |-> <<"t","o","k","e","n">>,
     keywords |-> <<<<"t","r","a","n","s","f","e","r">>,
                    <<"a","p","p","r","o","v","e">>,
                    <<"b","a","l","a","n","c","e","O","f">>,
                    <<"t","o","t","a","l","S","u","p","p","l","y">>>>],
      [pattern |-> <<"l","e","n","d","i","n","g">>,
     keywords |-> <<<<"b","o","r","r","o","w">>,
                    <<"r","e","p","a","y">>,
                    <<"l","i","q","u","i","d","a","t","e">>,
                    <<"c","o","l","l","a","t","e","r","a","l">>>>],
      [pattern |-> <<"g","o","v","e","r","n","a","n","c","e">>,
     keywords |-> <<<<"p","r","o","p","o","s","e">>,
                    <<"v","o","t","e">>,
                    <<"e","x","e","c","u","t","e">>,
                    <<"d","e","l","e","g","a","t","e">>>>],
      [pattern |-> <<"n","f","t">>,
     keywords |-> <<<<"m","i","n","t">>,
                    <<"t","o","k","e","n","U","R","I">>,
                    <<"o","w","n","e","r","O","f">>,
                    <<"s","e","t","A","p","p","r","o","v","a","l","F","o","r","A","l","l">>>>]>>

\* AbiManager.generateInterfaceName.  The address atom stands for its last
\* six characters.
generateInterfaceName(address, signatures) ==
    LET nameOf(sig) ==   \* sig.split('(')[0]
            IF \E k \in DOMAIN sig : sig[k] = "("
            THEN SubSeq(sig, 1, (CHOOSE k \in DOMAIN sig :
                                    sig[k] = "(" /\ \A j \in 1..(k - 1) : sig[j] # "(") - 1)
            ELSE sig
        named == SelectSeq([k \in DOMAIN signatures |-> nameOf(signatures[k])],
                           LAMBDA name : name # <<>> /\ name # S_unknown)
        functionNames == SubSeq(named, 1, IF Len(named) < 5 THEN Len(named) ELSE 5)
        score(p) ==
            Cardinality({k \in DOMAIN namePatterns[p].keywords :
                \E f \in DOMAIN functionNames :
                    includes(toLowerCase(functionNames[f]),
                             toLowerCase(namePatterns[p].keywords[k]))})
        \* score > bestScore: the first pattern that reaches the highest score
        bestMatch ==
            CHOOSE p \in DOMAIN namePatterns :
                /\ \A q \in DOMAIN namePatterns : score(q) <= score(p)
                /\ \A q \in 1..(p - 1) : score(q) < score(p)
        \* s.charAt(0).toUpperCase() + s.slice(1)
        capitalize(s) ==
            IF s # <<>> /\ \E u \in DOMAIN LowerTable : LowerTable[u] = s[1]
            THEN <<CHOOSE u \in DOMAIN LowerTable : LowerTable[u] = s[1]>> \o Tail(s)
            ELSE s
    IN
    IF functionNames = <<>> THEN <<"I", "C", "o", "n", "t", "r", "a", "c", "t", address>>
    ELSE IF score(bestMatch) >= 2 THEN <<"I">> \o capitalize(namePatterns[bestMatch].pattern)
    ELSE <<"I">> \o capitalize(functionNames[1]) \o <<"C", "o", "n", "t", "r", "a", "c", "t">>

\* _generateSingleCall, the typed branch: the interface the call goes through
\* (contracts.get(call.to) || new Set([call.signature]))
callInterfaceName(call, contracts) ==
    generateInterfaceName(call.to,
                          IF mapHas(contracts, call.to) THEN mapGet(contracts, call.to)
                          ELSE <<call.signature>>)

\* TraceParser._getInterfaceName
getInterfaceName(address, contracts) ==
    IF mapHas(contracts, address)
    THEN generateInterfaceName(address, mapGet(contracts, address))
    ELSE <<"C", "o", "n", "t", "r", "a", "c", "t", address>>

\* generateCallbackFunctions, a call without value inside a handler:
\* `I${this._getInterfaceName(call.to, contracts)}`
callbackInterfaceName(call, contracts) == <<"I">> \o getInterfaceName(call.to, contracts)

RECURSIVE generateInterfaces(_)
\* FoundryGenerator._generateInterfaces: one declaration per interface name,
\* for the first contract of the Map that is given the name; the declaration
\* holds one function line per signature of that contract
generateInterfaces(contracts) ==
    IF contracts = <<>> THEN <<>>
    ELSE LET processed == generateInterfaces(SubSeq(contracts, 1, Len(contracts) - 1))
             last == contracts[Len(contracts)]
             interfaceName == generateInterfaceName(last[1], last[2])
         IN  IF \E k \in DOMAIN processed : processed[k].name = interfaceName
             THEN processed
             ELSE Append(processed, [name |-> interfaceName, address |-> last[1],
                                     signatures |-> last[2]])

\* TraceParser.generateCallbackFunctions: the handler emitted for each entry
\* of the callbacks Map, in Map order; a type without a branch emits nothing
generateCallbackFunctions(callbacks) ==
    LET functionName(type) ==
            CASE type \in {"aave_flashloan", "generic_flashloan"} -> S_executeOperation
              [] type = "morpho_blue_callback" -> S_onMorphoFlashLoan
              [] type = "uniswap_v3_swap" -> S_uniswapV3SwapCallback
              [] type = "uniswap_v3_flash" -> S_uniswapV3FlashCallback
              [] OTHER -> <<>>
        emitted == SelectSeq(callbacks, LAMBDA entry : functionName(entry[1]) # <<>>)
    IN  [k \in DOMAIN emitted |->
            [type |-> emitted[k][1], functionName |-> functionName(emitted[k][1]),
             calls |-> emitted[k][2]]]

(***************************************************************************)
(* ChainlistAPI.getAllChains                                               *)
(***************************************************************************)
\* this.cacheExpiry, in milliseconds
CacheExpiry == 1800000

\* what fetchChainlist can do: resolve with a chain list, resolve with the
\* null that JSON.parse gives for the text "null", or reject
FetchOutcomes == {"chainsA", "chainsB", "null", "throw"}

\* getAllChains without the fallback to the cached entry
getAllChains_noFallback(cache, now, outcome, later) ==
    IF cache # <<>> /\ now - cache[1].timestamp < CacheExpiry
    THEN [cache |-> cache, fetched |-> FALSE, threw |-> FALSE, result |-> cache[1].data]
    ELSE IF outcome = "throw"
         THEN [cache |-> cache, fetched |-> TRUE, threw |-> TRUE, result |-> "none"]
         ELSE LET set == <<[data |-> outcome, timestamp |-> later]>>
              IN  IF outcome = "null"
                  THEN [cache |-> set, fetched |-> TRUE, threw |-> TRUE, result |-> "none"]
                  ELSE [cache |-> set, fetched |-> TRUE, threw |-> FALSE, result |-> outcome]

\* getAllChains(): `cache` is the entry under 'all_chains' (<<>> when there
\* is none), `now` the clock at the freshness test, `later` the clock when
\* the fetched list is cached.  A null list is cached and then raises on
\* `chains.length`, inside the try block.
getAllChains(cache, now, outcome, later) ==
    IF cache # <<>> /\ now - cache[1].timestamp < CacheExpiry
    THEN [cache |-> cache, fetched |-> FALSE, threw |-> FALSE, result |-> cache[1].data]
    ELSE LET set == <<[data |-> outcome, timestamp |-> later]>>
             afterTry == IF outcome = "throw" THEN cache ELSE set
         IN  IF outcome \in {"throw", "null"}
             THEN IF cache # <<>>
                  THEN [cache |-> afterTry, fetched |-> TRUE, threw |-> FALSE,
                        result |-> cache[1].data]
                  ELSE [cache |-> afterTry, fetched |-> TRUE, threw |-> TRUE,
                        result |-> "none"]
             ELSE [cache |-> set, fetched |-> TRUE, threw |-> FALSE, result |-> outcome]

(***************************************************************************)
(* Bounds                                                                  *)
(***************************************************************************)
\* a classified method name is built from at most this many name fragments
MaxFragments == 3

\* a trace has at most this many entries
MaxNodes == 3

\* the resolver is queried at most this many times
MaxLookups == 3

\* _registerAddress is called at most this many times
MaxRegistrations == 3

\* a wide trace calls at most this many distinct addresses
MaxAddresses == 10

\* at most this many entries follow the triggering call of extractCallbackData
MaxFollowing == 25

\* getAllChains is called at most this many times
MaxChainCalls == 3

\* the clock advances by at most this many steps of ten minutes between calls
MaxTicks == 4

\* a registry client is asked at most this many times
MaxRequests == 3

\* batchFetchTokenInfo is called on at most this many distinct addresses
MaxBatchAddresses == 12

VARIABLES
    dataMap,          \* traceData.dataMap: the entries in Object.entries order
    mainAddress,      \* the mainAddress argument
    pc,               \* where generateFoundryTest stands
    pk,               \* _processTraceData: the next invocation to process
    contracts,        \* Map address -> Set of signatures
    methodCalls,      \* the top-level calls
    addressRegistry,  \* Map lower-case address -> variable name
    addressCounter,   \* addressCounter.get('total') || 0
    signatureCache,   \* AbiManager.signatureCache
    registryCalls,    \* the external registry calls made so far
    callbackRanges,   \* the result of _findCallbackRanges
    rk,               \* the range being processed
    xk,               \* extractCallsInFlashloanRange: the next invocation
    callsInCallback,  \* extractCallsInFlashloanRange: the calls collected
    callbacks,        \* Map callback type -> callback data
    output,           \* the rendered test
    cbName,           \* detectCallbackType: the methodName argument
    cbType,           \* detectCallbackType: the value returned, "pending" before the call
    decInput,         \* decodeFunctionCall: the callData and abi arguments
    decOutput,        \* the decoder: what it has returned so far, and whether it raised
    lookupOutcomes,   \* what the two registries did during that call
    hasDataMap,       \* traceData.dataMap is defined
    errors,           \* the errors surfaced to the caller of the run
    tokenResponses,   \* what the token lookups answer, address by address
    tokenInfoMap,     \* batchFetchTokenInfo: Map address -> token info
    batchStart,       \* batchFetchTokenInfo: i, the start of the next batch
    lookups,          \* the queries made to the resolver and what each returned
    registrations,    \* the calls of _registerAddress and what each returned
    callbackData,     \* extractCallbackData: the value returned
    chainCache,       \* ChainlistAPI.cache: the entry under 'all_chains'
    clock,            \* Date.now(), in milliseconds since the start
    chainCalls,       \* the calls of getAllChains and what each returned
    requests,         \* the lookups made through the registry clients
    batchAddresses,   \* batchFetchTokenInfo on its own: the addresses argument
    inFlight          \* batchFetchTokenInfo on its own: the lookups not yet completed

classifierVars == <<cbName, cbType>>

pipelineVars ==
    <<dataMap, mainAddress, pc, pk, contracts, methodCalls, addressRegistry,
      addressCounter, signatureCache, registryCalls, callbackRanges, rk, xk,
      callsInCallback, callbacks, output, hasDataMap, errors, tokenResponses,
      tokenInfoMap, batchStart>>

unitVars ==
    <<lookups, registrations, callbackData, chainCache, clock, chainCalls, requests,
      batchAddresses, inFlight>>

decoderVars == <<decInput, decOutput, lookupOutcomes>>

vars == <<pipelineVars, classifierVars, decoderVars, unitVars>>

\* nothing is rendered
EmptyOutput == [main |-> <<>>, interfaces |-> <<>>, variables |-> <<>>, callbacks |-> <<>>]

\* the null of extractCallbackData
NoCallbackData == [found |-> FALSE, calls |-> <<>>, startId |-> 0, endId |-> 0]

\* no unit operation has been called
UnitIdle ==
    /\ lookups = <<>>
    /\ registrations = <<>>
    /\ callbackData = NoCallbackData
    /\ chainCache = <<>>
    /\ clock = 0
    /\ chainCalls = <<>>
    /\ requests = <<>>
    /\ batchAddresses = <<>>
    /\ inFlight = {}

\* the pipeline before generateFoundryTest is called on a trace
PipelineIdle ==
    /\ dataMap = <<>>
    /\ mainAddress = ""
    /\ pc = "idle"
    /\ pk = 1
    /\ contracts = <<>>
    /\ methodCalls = <<>>
    /\ addressRegistry = <<>>
    /\ addressCounter = 0
    /\ signatureCache = <<>>
    /\ registryCalls = <<>>
    /\ callbackRanges = <<>>
    /\ rk = 1
    /\ xk = 1
    /\ callsInCallback = <<>>
    /\ callbacks = <<>>
    /\ output = EmptyOutput
    /\ hasDataMap = TRUE
    /\ errors = <<>>
    /\ tokenResponses = [erc20 |-> {}, pair |-> {}, throws |-> {}]
    /\ tokenInfoMap = <<>>
    /\ batchStart = 1

\* the decoder before decodeFunctionCall is called
DecoderIdle ==
    /\ decInput = [callData |-> <<>>, abi |-> <<>>]
    /\ decOutput = [done |-> FALSE, threw |-> FALSE, result |-> NoDecodedCall,
                    paramsDone |-> FALSE, params |-> <<>>]
    /\ lookupOutcomes = <<>>

(***************************************************************************)
(* The classifier on its own: every name that can be spelled with up to    *)
(* MaxFragments fragments of the callback vocabulary is classified once.   *)
(***************************************************************************)
Fragments ==
    LET S_Operation == <<"O","p","e","r","a","t","i","o","n">>
        S_receive == <<"r","e","c","e","i","v","e">>
        S_FlashLoan == <<"F","l","a","s","h","L","o","a","n">>
        S_call == <<"c","a","l","l">>
        S_Function == <<"F","u","n","c","t","i","o","n">>
        S_onMorpho == <<"o","n","M","o","r","p","h","o">>
        S_uniswapV3 == <<"u","n","i","s","w","a","p","V","3">>
        S_Swap == <<"S","w","a","p">>
        S_Flash == <<"F","l","a","s","h">>
        S_Callback == <<"C","a","l","l","b","a","c","k">>
        S_Loan == <<"L","o","a","n">>
    IN  { S_execute, S_Operation, S_receive, S_FlashLoan, S_call, S_Function,
          S_onMorpho, S_uniswapV3, S_Swap, S_Flash, S_Callback, S_flashLoan,
          S_morpho, S_Loan, S_totallyUnknownMethod }

RECURSIVE Concat(_)
Concat(parts) ==
    IF parts = <<>> THEN <<>> ELSE Head(parts) \o Concat(Tail(parts))

FragmentNames ==
    { Concat(parts) : parts \in UNION { [1..n -> Fragments] : n \in 1..MaxFragments } }

ClassifyInit ==
    /\ cbName \in FragmentNames
    /\ cbType = "pending"
    /\ PipelineIdle
    /\ DecoderIdle
    /\ UnitIdle

Classify ==
    /\ cbType = "pending"
    /\ cbType' = detectCallbackType(cbName)
    /\ UNCHANGED <<cbName, pipelineVars, decoderVars, unitVars>>

ClassifyNext == Classify

ClassifySpec == ClassifyInit /\ [][ClassifyNext]_vars

\* C7: the classifier returns the kind the vocabulary table assigns to each
\* of the seven names of the table (executeOperation -> flash-loan-style,
\* receiveFlashLoan -> Balancer-style, callFunction -> dYdX-style,
\* onMorphoFlashLoan -> Morpho-style, uniswapV3SwapCallback -> swap-style,
\* uniswapV3FlashCallback -> V3 flash-style, totallyUnknownMethod -> unknown).
ClassificationTable ==
    (S_executeOperation :> "aave_flashloan")
    @@ (S_receiveFlashLoan :> "balancer_flashloan")
    @@ (S_callFunction :> "dydx_flashloan")
    @@ (S_onMorphoFlashLoan :> "morpho_blue_callback")
    @@ (S_uniswapV3SwapCallback :> "uniswap_v3_swap")
    @@ (S_uniswapV3FlashCallback :> "uniswap_v3_flash")
    @@ (S_totallyUnknownMethod :> "unknown_callback")

C7_ClassificationTable ==
    (cbType # "pending" /\ cbName \in DOMAIN ClassificationTable)
        => cbType = ClassificationTable[cbName]


(***************************************************************************)
(* The decoder on its own: decodeFunctionCall and                          *)
(* _decodeParametersFromCallData applied to call data, local ABIs and      *)
(* signature caches of every shape, under every behaviour of the registries*)
(***************************************************************************)
\* a local ABI whose first function collides with a registry entry
CollidingAbi ==
    << [name |-> S_approve, inputs |-> <<"uint256">>, selector |-> UnknownSelector] >>
        \o KnownAbi

\* abi: null, the known contract's ABI, an ABI of two functions
DecodeAbis == { <<>>, KnownAbi, CollidingAbi }

\* callData: undefined, '0x', shorter than a selector, a bare selector, and
\* selectors followed by well-formed words or by a truncated tail
DecodeCallData ==
    { <<>>, <<"0x">>, <<"0x", "abcdef">>,
      UnknownSelector,
      UnknownSelector \o <<"W">>,
      UnknownSelector \o <<"abcdef">>,
      TransferSelector \o <<"W", "W">>,
      TransferSelector \o <<"W">>,
      TransferSelector \o <<"abcdef">> }

\* signatureCache: empty, or holding a signature or null for one selector
DecodeCaches ==
    { <<>> } \cup
    UNION { { << <<sel, v>> >> : v \in {FourByteEntry(sel), NoSignature} } :
            sel \in {UnknownSelector, TransferSelector} }

DecodeInit ==
    /\ decInput \in [callData : DecodeCallData, abi : DecodeAbis]
    /\ decOutput = [done |-> FALSE, threw |-> FALSE, result |-> NoDecodedCall,
                    paramsDone |-> FALSE, params |-> <<>>]
    /\ lookupOutcomes = <<>>
    /\ signatureCache \in DecodeCaches
    /\ dataMap = <<>>
    /\ mainAddress = ""
    /\ pc = "idle"
    /\ pk = 1
    /\ contracts = <<>>
    /\ methodCalls = <<>>
    /\ addressRegistry = <<>>
    /\ addressCounter = 0
    /\ registryCalls = <<>>
    /\ callbackRanges = <<>>
    /\ rk = 1
    /\ xk = 1
    /\ callsInCallback = <<>>
    /\ callbacks = <<>>
    /\ output = EmptyOutput
    /\ hasDataMap = TRUE
    /\ errors = <<>>
    /\ tokenResponses = [erc20 |-> {}, pair |-> {}, throws |-> {}]
    /\ tokenInfoMap = <<>>
    /\ batchStart = 1
    /\ UnitIdle
    /\ cbName = <<>>
    /\ cbType = "pending"

\* AbiManager.decodeFunctionCall(address, callData, abi)
DecodeFunctionCall ==
    /\ ~decOutput.done
    /\ \E o1 \in Outcomes, o2 \in Outcomes :
        LET res == decodeFunctionCall(signatureCache, decInput.callData,
                                      decInput.abi, o1, o2)
        IN  /\ decOutput' = [decOutput EXCEPT !.done = TRUE, !.threw = res.threw,
                                              !.result = res.result]
            /\ signatureCache' = res.cache
            /\ registryCalls' = registryCalls \o res.calls
            /\ lookupOutcomes' = <<o1, o2>>
    /\ UNCHANGED <<decInput, dataMap, mainAddress, pc, pk, contracts, methodCalls,
                   addressRegistry, addressCounter, callbackRanges, rk, xk,
                   callsInCallback, callbacks, output, hasDataMap, errors,
                   tokenResponses, tokenInfoMap, batchStart, classifierVars, unitVars>>

\* FoundryGenerator._decodeParametersFromCallData(callData, apiResult) with a
\* signature a registry has answered
DecodeParametersFromCallData ==
    /\ ~decOutput.paramsDone
    /\ \E apiResult \in {FourByteEntry(UnknownSelector), EtherfaceEntry(UnknownSelector)} :
        LET res == decodeParametersFromCallData(decInput.callData, apiResult)
        IN  decOutput' = [decOutput EXCEPT !.paramsDone = TRUE,
                                           !.threw = decOutput.threw \/ res.threw,
                                           !.params = res.params]
    /\ UNCHANGED <<decInput, lookupOutcomes, pipelineVars, classifierVars, unitVars>>

DecodeNext ==
    \/ DecodeFunctionCall
    \/ DecodeParametersFromCallData

DecodeSpec == DecodeInit /\ [][DecodeNext]_vars

\* C8: decode never throws.  Whatever the call data, the local ABI, the
\* signature cache and the behaviour of the two registries (answer, empty
\* answer, raise), neither decodeFunctionCall nor
\* _decodeParametersFromCallData lets an exception out.
C8_DecodeNeverThrows == ~decOutput.threw

\* C8 at work: the ABI entry matches but its decode raises, both registries
\* raise, the parameter decode meets a truncated payload, and the decoder has
\* returned null without raising
C8_Witness ==
    /\ decOutput.done /\ decOutput.paramsDone
    /\ decInput.abi = KnownAbi
    /\ decInput.callData = TransferSelector \o <<"abcdef">>
    /\ lookupOutcomes = <<"throw", "throw">>
    /\ registryCalls = <<"4byte", "etherface">>
    /\ ~decOutput.result.found
    /\ decOutput.params = rawBytesParam(decInput.callData)

\* the local ABI holds a function with the selector of the call data
abiHasSelector(abi, callData) ==
    /\ strLength(callData) >= 10
    /\ \E k \in DOMAIN abi : abi[k].selector = sliceSelector(callData)

\* ... and the call data decodes against that function's parameter types
abiDecodesCall(abi, callData) ==
    /\ strLength(callData) >= 10
    /\ \E k \in DOMAIN abi :
        /\ abi[k].selector = sliceSelector(callData)
        /\ abiDecodes(abi[k].inputs, sliceParams(callData))

\* C9 as stated: whenever the local ABI holds a function whose selector is the
\* leading four bytes of the call data, the result of decodeFunctionCall is of
\* the typed-ABI tier.
C9_AbiMatchIsTypedAbi ==
    (decOutput.done /\ abiHasSelector(decInput.abi, decInput.callData))
        => decOutput.result.tier = "abi"

\* C9 amended: whenever the local ABI holds a function whose selector is the
\* leading four bytes of the call data and the call data decodes against that
\* function's parameter types, the result of decodeFunctionCall is of the
\* typed-ABI tier and carries that function's name, whatever the registries
\* or the signature cache hold for the selector.
C9_DecodableAbiMatchIsTypedAbi ==
    (decOutput.done /\ abiDecodesCall(decInput.abi, decInput.callData))
        => /\ decOutput.result.tier = "abi"
           /\ decOutput.result.hasDecodedData
           /\ \E k \in DOMAIN decInput.abi :
                /\ decInput.abi[k].selector = sliceSelector(decInput.callData)
                /\ decOutput.result.name = decInput.abi[k].name
           /\ registryCalls = <<>>

\* C9 at work: the second function of the ABI matches and decodes while the
\* cache already holds a registry signature for the same selector
C9_Witness ==
    /\ decOutput.done
    /\ decInput.abi = CollidingAbi
    /\ decInput.callData = TransferSelector \o <<"W", "W">>
    /\ mapHas(signatureCache, TransferSelector)
    /\ mapGet(signatureCache, TransferSelector).found
    /\ decOutput.result.tier = "abi"
    /\ decOutput.result.name = S_transfer

(***************************************************************************)
(* The resolver on its own: a fresh AbiManager is queried up to MaxLookups *)
(* times, for either selector, under every behaviour of the registries     *)
(***************************************************************************)
\* AbiManager.lookupFunctionSignatureWithFallback(selector); the query, what
\* the registries did and what came back are appended to lookups
LookupFunctionSignatureWithFallback ==
    /\ Len(lookups) < MaxLookups
    /\ \E selector \in {UnknownSelector, TransferSelector},
          o1 \in Outcomes, o2 \in Outcomes :
        LET res == lookupFunctionSignatureWithFallback(signatureCache, selector, o1, o2)
        IN  /\ signatureCache' = res.cache
            /\ registryCalls' = registryCalls \o res.calls
            /\ lookups' = Append(lookups,
                                 [selector |-> selector, o1 |-> o1, o2 |-> o2,
                                  threw |-> res.threw, result |-> res.result,
                                  calls |-> res.calls])
    /\ UNCHANGED <<dataMap, mainAddress, pc, pk, contracts, methodCalls,
                   addressRegistry, addressCounter, callbackRanges, rk, xk,
                   callsInCallback, callbacks, output, hasDataMap, errors,
                   tokenResponses, tokenInfoMap, batchStart, classifierVars,
                   decoderVars, registrations, callbackData,
                   chainCache, clock, chainCalls, requests, batchAddresses, inFlight>>

\* new AbiManager(fourByteApi, etherfaceApi): the signature cache is empty
ResolveInit ==
    /\ PipelineIdle /\ DecoderIdle /\ UnitIdle
    /\ cbName = <<>> /\ cbType = "pending"

ResolveSpec == ResolveInit /\ [][LookupFunctionSignatureWithFallback]_vars

\* the query at position j of lookups is the first one for its selector
firstQuery(j) ==
    \A i \in 1..(j - 1) : lookups[i].selector # lookups[j].selector

\* C11: once the resolver has been queried for a selector, every later query
\* for that selector returns what the first query returned, a signature or
\* null alike, and makes no call to an external registry.
C11_RepeatQueryIsCached ==
    \A j \in DOMAIN lookups : \A i \in 1..(j - 1) :
        lookups[i].selector = lookups[j].selector
            => /\ lookups[j].result = lookups[i].result
               /\ lookups[j].calls = <<>>
               /\ ~lookups[j].threw

\* C11 at work: the first query found nothing, the same selector is queried
\* again while 4byte would now answer, and null comes back with no call made
C11_Witness ==
    /\ Len(lookups) >= 2
    /\ lookups[1].selector = lookups[2].selector
    /\ ~lookups[1].result.found
    /\ lookups[2].o1 = "hit"
    /\ ~lookups[2].result.found
    /\ lookups[2].calls = <<>>
    /\ registryCalls = <<"4byte", "etherface">>

\* C12: on a cache miss 4byte is asked first and Etherface only when 4byte
\* raised or answered empty; the result is the first non-empty answer, and
\* null, without an exception, when both raise or answer empty.
C12_PrimaryThenSecondary ==
    \A j \in DOMAIN lookups :
        firstQuery(j) =>
            LET q == lookups[j] IN
            /\ ~q.threw
            /\ q.calls = IF q.o1 = "hit" THEN <<"4byte">> ELSE <<"4byte", "etherface">>
            /\ q.result = IF q.o1 = "hit" THEN FourByteEntry(q.selector)
                          ELSE IF q.o2 = "hit" THEN EtherfaceEntry(q.selector)
                          ELSE NoSignature

\* C12 at work: 4byte raised, Etherface answered, and its answer is the result
C12_Witness ==
    /\ Len(lookups) >= 1
    /\ lookups[1].o1 = "throw"
    /\ lookups[1].o2 = "hit"
    /\ lookups[1].calls = <<"4byte", "etherface">>
    /\ lookups[1].result = EtherfaceEntry(lookups[1].selector)

(***************************************************************************)
(* The address registry on its own: up to MaxRegistrations addresses, in   *)
(* either letter case, are registered in a fresh registry                  *)
(***************************************************************************)
\* _registerAddress(address, addressRegistry, addressCounter); the address,
\* the name returned and the counter before and after are appended to
\* registrations
RegisterAddress ==
    /\ Len(registrations) < MaxRegistrations
    /\ \E address \in {"0x2b", "0x2B", "0x3c", "0x3C", "0x4d"} :
        LET res == registerAddress(address, addressRegistry, addressCounter)
        IN  /\ addressRegistry' = res.addressRegistry
            /\ addressCounter' = res.addressCounter
            /\ registrations' = Append(registrations,
                                       [address |-> address, varName |-> res.varName,
                                        before |-> addressCounter,
                                        after |-> res.addressCounter])
    /\ UNCHANGED <<dataMap, mainAddress, pc, pk, contracts, methodCalls,
                   signatureCache, registryCalls, callbackRanges, rk, xk,
                   callsInCallback, callbacks, output, hasDataMap, errors,
                   tokenResponses, tokenInfoMap, batchStart, classifierVars,
                   decoderVars, lookups, callbackData, chainCache, clock,
                   chainCalls, requests, batchAddresses, inFlight>>

\* const addressRegistry = new Map(); const addressCounter = new Map()
RegisterInit ==
    /\ PipelineIdle /\ DecoderIdle /\ UnitIdle
    /\ cbName = <<>> /\ cbType = "pending"

RegisterSpec == RegisterInit /\ [][RegisterAddress]_vars

\* C13: registering an address that was registered before, in whatever letter
\* case and after whatever other registrations, returns the variable name of
\* the first registration and leaves the counter of the registry as it was.
C13_RegistrationIsIdempotent ==
    \A j \in DOMAIN registrations : \A i \in 1..(j - 1) :
        addrToLowerCase(registrations[i].address) = addrToLowerCase(registrations[j].address)
            => /\ registrations[j].varName = registrations[i].varName
               /\ registrations[j].after = registrations[j].before

\* C13 at work: an address is registered, then another one, then the first
\* one again in upper case: it keeps the name addr1 and the counter stays 2
C13_Witness ==
    /\ Len(registrations) = 3
    /\ registrations[1].address = "0x2b"
    /\ registrations[2].address = "0x3C"
    /\ registrations[3].address = "0x2B"
    /\ registrations[3].varName = addrVar(1)
    /\ registrations[3].before = 2
    /\ addressCounter = 2
    /\ Len(addressRegistry) = 2

(***************************************************************************)
(* The pipeline of FoundryGenerator.generateFoundryTest                    *)
(***************************************************************************)
st ==
    [contracts |-> contracts, methodCalls |-> methodCalls,
     addressRegistry |-> addressRegistry, addressCounter |-> addressCounter,
     signatureCache |-> signatureCache]

setModel(new) ==
    /\ contracts' = new.contracts
    /\ methodCalls' = new.methodCalls
    /\ addressRegistry' = new.addressRegistry
    /\ addressCounter' = new.addressCounter
    /\ signatureCache' = new.signatureCache

modelVars == <<contracts, methodCalls, addressRegistry, addressCounter, signatureCache>>

\* PhalconTraceParser._determineMainAddress on a trace without a transaction
\* hash: the most frequent `from` of the invocations held in the plural
\* field, lower-cased; among equally frequent ones the first met (the sort
\* is stable over Map order).  "" is the null returned when there is none.
determineMainAddress(trace) ==
    LET items == SelectSeq(entryItems(trace, 1, 1),
                           LAMBDA item : /\ trace[item.e].hasInvocations
                                         /\ invocationAt(trace, item).from # "")
        froms == [k \in DOMAIN items |-> addrToLowerCase(invocationAt(trace, items[k]).from)]
        count(a) == Cardinality({k \in DOMAIN froms : froms[k] = a})
    IN  IF froms = <<>> THEN ""
        ELSE froms[CHOOSE k \in DOMAIN froms :
                      /\ \A j \in DOMAIN froms : count(froms[j]) <= count(froms[k])
                      /\ \A j \in 1..(k - 1) : count(froms[j]) < count(froms[k])]

\* PhalconTraceParser.process up to its call of generateFoundryTest: the
\* main address is the one given or the one determined from the trace, and
\* the run ends with one error when there is neither
Process ==
    /\ pc = "start"
    /\ LET resolved == IF mainAddress # "" THEN mainAddress
                       ELSE IF hasDataMap THEN determineMainAddress(dataMap)
                       ELSE ""
       IN  /\ mainAddress' = resolved
           /\ pc' = IF resolved = "" THEN "failed" ELSE "generate"
           /\ errors' = IF resolved = ""
                        THEN Append(errors, "Could not determine main address from trace and none provided")
                        ELSE errors
    /\ UNCHANGED <<dataMap, pk, modelVars, registryCalls, callbackRanges, rk, xk,
                   callsInCallback, callbacks, output, hasDataMap, tokenResponses,
                   tokenInfoMap, batchStart, classifierVars, decoderVars, unitVars>>

\* generateFoundryTest without the check of line 30 and with a walk that
\* takes a missing dataMap for an empty one
GenerateFoundryTest_unchecked ==
    /\ pc = "generate"
    /\ pc' = "process"
    /\ UNCHANGED <<dataMap, mainAddress, pk, modelVars, registryCalls, callbackRanges,
                   rk, xk, callsInCallback, callbacks, output, hasDataMap, errors,
                   tokenResponses, tokenInfoMap, batchStart, classifierVars,
                   decoderVars, unitVars>>

\* the first lines of generateFoundryTest: without a main address the Error
\* of line 31 is thrown; without a dataMap, Object.entries(undefined) raises a
\* TypeError in _processTraceData
GenerateFoundryTest ==
    /\ pc = "generate"
    /\ pc' = IF mainAddress = "" \/ ~hasDataMap THEN "failed" ELSE "process"
    /\ errors' = IF mainAddress = ""
                 THEN Append(errors, "Main address is required for test generation")
                 ELSE IF ~hasDataMap THEN Append(errors, "TypeError")
                 ELSE errors
    /\ UNCHANGED <<dataMap, mainAddress, pk, modelVars, registryCalls, callbackRanges,
                   rk, xk, callsInCallback, callbacks, output, hasDataMap,
                   tokenResponses, tokenInfoMap, batchStart, classifierVars,
                   decoderVars, unitVars>>

\* what a call of _processInvocation leaves behind (res is what
\* processInvocation returns)
recordProcessed(res) ==
    /\ setModel(res.st)
    /\ registryCalls' = registryCalls \o res.calls
    /\ pc' = IF res.threw THEN "failed" ELSE pc
    /\ errors' = IF res.threw THEN Append(errors, "TypeError") ELSE errors
    /\ pk' = pk + 1

\* one iteration of the loops of _processTraceData that reaches _processInvocation
ProcessInvocation ==
    /\ pc = "process"
    /\ pk <= Len(processItems(dataMap, mainAddress))
    /\ \E o1 \in Outcomes, o2 \in Outcomes :
        recordProcessed(
            processInvocation(
                invocationAt(dataMap, processItems(dataMap, mainAddress)[pk]),
                processItems(dataMap, mainAddress)[pk].id, st, o1, o2))
    /\ UNCHANGED <<dataMap, mainAddress, callbackRanges, rk, xk, callsInCallback,
                   callbacks, output, hasDataMap, tokenResponses, tokenInfoMap,
                   batchStart, classifierVars, decoderVars, unitVars>>

\* _processTraceData has returned: _findCallbackRanges
FindCallbackRanges ==
    /\ pc = "process"
    /\ pk > Len(processItems(dataMap, mainAddress))
    /\ callbackRanges' = findCallbackRanges(dataMap, mainAddress)
    /\ pc' = "extract"
    /\ UNCHANGED <<dataMap, mainAddress, pk, modelVars, registryCalls, rk, xk,
                   callsInCallback, callbacks, output, hasDataMap, errors,
                   tokenResponses, tokenInfoMap, batchStart, classifierVars,
                   decoderVars, unitVars>>

\* what one iteration of the loop of extractCallsInFlashloanRange leaves
\* behind (item is the invocation visited, res what extractInvocation returns)
recordExtracted(item, res) ==
    /\ setModel(res.st)
    /\ registryCalls' = registryCalls \o res.calls
    /\ pc' = IF res.threw THEN "failed" ELSE pc
    /\ errors' = IF res.threw THEN Append(errors, "TypeError") ELSE errors
    /\ callsInCallback' = IF res.threw THEN callsInCallback
                          ELSE Append(callsInCallback, res.call)
    /\ dataMap' =
         IF dataMap[item.e].hasInvocations
         THEN [dataMap EXCEPT ![item.e].invocations[item.j] = res.invocation]
         ELSE [dataMap EXCEPT ![item.e].invocation[item.j] = res.invocation]
    /\ xk' = xk + 1

\* one iteration of the loop of extractCallsInFlashloanRange over a
\* main-address invocation of the current range
ExtractInvocation ==
    /\ pc = "extract"
    /\ rk <= Len(callbackRanges)
    /\ xk <= Len(rangeItems(dataMap, mainAddress, callbackRanges[rk]))
    /\ \E o1 \in Outcomes, o2 \in Outcomes :
        recordExtracted(
            rangeItems(dataMap, mainAddress, callbackRanges[rk])[xk],
            extractInvocation(
                invocationAt(dataMap, rangeItems(dataMap, mainAddress, callbackRanges[rk])[xk]),
                rangeItems(dataMap, mainAddress, callbackRanges[rk])[xk].id, st, o1, o2))
    /\ UNCHANGED <<mainAddress, pk, callbackRanges, rk, callbacks, output, hasDataMap,
                   tokenResponses, tokenInfoMap, batchStart, classifierVars,
                   decoderVars, unitVars>>

\* extractCallsInFlashloanRange has returned: callbacks.set(type, callbackData)
\* when the range holds a call (generateFoundryTest, lines 54-61)
FinishRange ==
    /\ pc = "extract"
    /\ rk <= Len(callbackRanges)
    /\ xk > Len(rangeItems(dataMap, mainAddress, callbackRanges[rk]))
    /\ callbacks' =
         IF Len(callsInCallback) > 0
         THEN mapSet(callbacks,
                     IF callbackRanges[rk].type = "flashloan"
                     THEN detectCallbackType(callbackRanges[rk].methodName)
                     ELSE callbackRanges[rk].type,
                     callsInCallback)
         ELSE callbacks
    /\ rk' = rk + 1
    /\ xk' = 1
    /\ callsInCallback' = <<>>
    /\ UNCHANGED <<dataMap, mainAddress, pc, pk, modelVars, registryCalls,
                   callbackRanges, output, hasDataMap, errors, tokenResponses,
                   tokenInfoMap, batchStart, classifierVars, decoderVars, unitVars>>

\* every range is processed: one batch of batchFetchTokenInfo on the unique
\* addresses of the run.  The lookups of a batch run concurrently and each
\* one that finds something sets its Map entry when it completes, so the
\* entries of a batch are inserted in any order.
BatchFetchTokenInfo ==
    /\ pc = "extract"
    /\ rk > Len(callbackRanges)
    /\ batchStart <= Len(getUniqueAddresses(methodCalls, addressRegistry))
    /\ LET uniqueAddresses == getUniqueAddresses(methodCalls, addressRegistry)
           last == IF batchStart + BatchSize - 1 < Len(uniqueAddresses)
                   THEN batchStart + BatchSize - 1 ELSE Len(uniqueAddresses)
           batch == SubSeq(uniqueAddresses, batchStart, last)
           found == {k \in DOMAIN batch : fetchTokenInfo(batch[k], tokenResponses).found}
       IN  \E order \in [1..Cardinality(found) -> found] :
              /\ \A i, j \in DOMAIN order : order[i] = order[j] => i = j
              /\ tokenInfoMap' =
                    tokenInfoMap \o
                    [k \in DOMAIN order |->
                        <<batch[order[k]], fetchTokenInfo(batch[order[k]], tokenResponses)>>]
    /\ batchStart' = batchStart + BatchSize
    /\ UNCHANGED <<dataMap, mainAddress, pc, pk, modelVars, registryCalls, callbackRanges,
                   rk, xk, callsInCallback, callbacks, output, hasDataMap, errors,
                   tokenResponses, classifierVars, decoderVars, unitVars>>

\* _generateTestContent with a renderer that registers the main address
\* while it renders
GenerateTestContent_registers ==
    /\ pc = "extract"
    /\ rk > Len(callbackRanges)
    /\ batchStart > Len(getUniqueAddresses(methodCalls, addressRegistry))
    /\ LET reg == registerAddress(mainAddress, addressRegistry, addressCounter)
       IN  /\ addressRegistry' = reg.addressRegistry
           /\ addressCounter' = reg.addressCounter
           /\ output' = [main |-> generateMainTestFunction(methodCalls),
                         interfaces |-> generateInterfaces(contracts),
                         variables |-> generateStateVariables(reg.addressRegistry,
                                                              tokenInfoMap),
                         callbacks |-> generateCallbackFunctions(callbacks)]
    /\ pc' = "done"
    /\ UNCHANGED <<dataMap, mainAddress, pk, contracts, methodCalls, signatureCache,
                   registryCalls, callbackRanges, rk, xk, callsInCallback, callbacks,
                   hasDataMap, errors, tokenResponses, tokenInfoMap, batchStart,
                   classifierVars, decoderVars, unitVars>>

\* the token information is fetched: _generateTestContent
GenerateTestContent ==
    /\ pc = "extract"
    /\ rk > Len(callbackRanges)
    /\ batchStart > Len(getUniqueAddresses(methodCalls, addressRegistry))
    /\ output' = [main |-> generateMainTestFunction(methodCalls),
                  interfaces |-> generateInterfaces(contracts),
                  variables |-> generateStateVariables(addressRegistry, tokenInfoMap),
                  callbacks |-> generateCallbackFunctions(callbacks)]
    /\ pc' = "done"
    /\ UNCHANGED <<dataMap, mainAddress, pk, modelVars, registryCalls, callbackRanges,
                   rk, xk, callsInCallback, callbacks, hasDataMap, errors,
                   tokenResponses, tokenInfoMap, batchStart, classifierVars,
                   decoderVars, unitVars>>

Next ==
    \/ Process
    \/ GenerateFoundryTest
    \/ ProcessInvocation
    \/ FindCallbackRanges
    \/ ExtractInvocation
    \/ FinishRange
    \/ BatchFetchTokenInfo
    \/ GenerateTestContent

(***************************************************************************)
(* Traces                                                                  *)
(***************************************************************************)
MainAddress == "0x1a"

\* an invocation in the short (from/to) or the long (fromAddress/address)
\* spelling of its endpoint fields
mkInvocation(naming, from, to, decodedMethod, selector, callData, value) ==
    [from |-> IF naming = "short" THEN from ELSE "",
     fromAddress |-> IF naming = "long" THEN from ELSE "",
     to |-> IF naming = "short" THEN to ELSE "",
     address |-> IF naming = "long" THEN to ELSE "",
     decodedMethod |-> decodedMethod,
     selector |-> selector,
     callData |-> callData,
     value |-> value]

\* an entry that holds its invocation in the singular or in the plural field
mkEntry(id, form, invocation) ==
    [id |-> id,
     hasInvocations |-> form = "plural",
     invocations |-> IF form = "plural" THEN <<invocation>> ELSE <<>>,
     invocation |-> IF form = "singular" THEN <<invocation>> ELSE <<>>]

DecodedTransfer ==
    [name |-> S_transfer,
     signature |-> makeSignature(S_transfer, <<"address", "uint256">>),
     callParams |-> <<[type |-> "address", value |-> <<"W">>],
                      [type |-> "uint256", value |-> <<"W">>]>>]

DecodedFlashLoan ==
    [name |-> S_flashLoan,
     signature |-> makeSignature(S_flashLoan, <<"address", "uint256", "bytes">>),
     callParams |-> <<>>]

\* the invocations a trace entry of the model can hold
Templates ==
    { \* not from the main address
      [form |-> "singular",
       inv |-> mkInvocation("short", "0x9f", "0x2b", DecodedTransfer, <<>>, <<>>, "0")],
      \* pre-decoded calls from the main address
      [form |-> "plural",
       inv |-> mkInvocation("short", "0x1a", "0x2b", DecodedTransfer,
                            TransferSelector, TransferSelector \o <<"W", "W">>, "0")],
      [form |-> "singular",
       inv |-> mkInvocation("long", "0x1A", "0x4d", DecodedTransfer,
                            TransferSelector, TransferSelector \o <<"W", "W">>, "5")],
      \* the flash-loan trigger
      [form |-> "singular",
       inv |-> mkInvocation("short", "0x1a", "0x3c", DecodedFlashLoan, <<>>, <<>>, "0")],
      \* a selector the registries are asked about
      [form |-> "singular",
       inv |-> mkInvocation("short", "0x1a", "0x2b", NoDecodedMethod,
                            UnknownSelector, UnknownSelector \o <<"W">>, "0")],
      [form |-> "singular",
       inv |-> mkInvocation("short", "0x1a", "0x2b", NoDecodedMethod,
                            UnknownSelector, UnknownSelector \o <<"abcdef">>, "5")],
      [form |-> "singular",
       inv |-> mkInvocation("short", "0x1a", "0x2b", NoDecodedMethod,
                            UnknownSelector, <<"0x">>, "0")],
      \* a plain transfer: neither a selector nor call data
      [form |-> "singular",
       inv |-> mkInvocation("short", "0x1a", "0x2B", NoDecodedMethod, <<>>, <<>>, "")] }

\* calls to the contract with a local ABI: call data that decodes against
\* the ABI's transfer(address,uint256), and call data too short for it
AbiTemplates ==
    { [form |-> "singular",
       inv |-> mkInvocation("short", "0x1a", "0x796f", NoDecodedMethod,
                            TransferSelector, TransferSelector \o <<"W", "W">>, "0")],
      [form |-> "singular",
       inv |-> mkInvocation("short", "0x1a", "0x796f", NoDecodedMethod,
                            TransferSelector, TransferSelector \o <<"W">>, "0")] }

\* the distance between the keys of consecutive entries
Strides == {1, 25}

\* the trace that holds the invocations f[1], f[2], ... at keys 0, stride, ...
traceOf(f, stride) ==
    [k \in DOMAIN f |-> mkEntry((k - 1) * stride, f[k].form, f[k].inv)]

\* the answers of the chain to the token lookups of the model's addresses
NoTokens == [erc20 |-> {}, pair |-> {}, throws |-> {}]

\* the traces of at most MaxNodes entries drawn from templates
tracesOf(templates, strides) ==
    UNION {{traceOf(f, stride) : f \in [1..n -> templates]} :
              n \in 1..MaxNodes, stride \in strides}

\* process is called on a trace file that holds a dataMap, with a main address
WithMain == {[mainAddress |-> MainAddress, hasDataMap |-> TRUE, pc |-> "start"]}

\* a run starts: process (pc = "start") or generateFoundryTest
\* (pc = "generate") is called
PipelineStart(traces, entries, responses) ==
    /\ \E entry \in entries :
         /\ mainAddress = entry.mainAddress
         /\ hasDataMap = entry.hasDataMap
         /\ pc = entry.pc
    /\ dataMap \in IF hasDataMap THEN traces ELSE {<<>>}
    /\ errors = <<>>
    /\ tokenResponses \in responses
    /\ tokenInfoMap = <<>>
    /\ batchStart = 1
    /\ UnitIdle
    /\ pk = 1
    /\ contracts = <<>>
    /\ methodCalls = <<>>
    /\ addressRegistry = <<>>
    /\ addressCounter = 0
    /\ signatureCache = <<>>
    /\ registryCalls = <<>>
    /\ callbackRanges = <<>>
    /\ rk = 1
    /\ xk = 1
    /\ callsInCallback = <<>>
    /\ callbacks = <<>>
    /\ output = EmptyOutput
    /\ cbName = <<>>
    /\ cbType = "pending"
    /\ DecoderIdle

\* the templates, the calls to the contract with a local ABI and the trigger
\* of a dYdX flash loan: a main-address call of callFunction
Init ==
    LET callFunction ==
            [form |-> "singular",
             inv |-> mkInvocation("short", "0x1a", "0x3c",
                                  [name |-> S_callFunction,
                                   signature |-> makeSignature(S_callFunction,
                                                               <<"address", "bytes">>),
                                   callParams |-> <<>>],
                                  <<>>, <<>>, "0")]
    IN  PipelineStart(tracesOf(Templates \cup AbiTemplates \cup {callFunction}, Strides),
                      WithMain, {NoTokens})

Spec == Init /\ [][Next]_vars

\* the same pipeline on the traces whose targets have no local ABI
ReplayInit == PipelineStart(tracesOf(Templates, Strides), WithMain, {NoTokens})

ReplaySpec == ReplayInit /\ [][Next]_vars

(***************************************************************************)
(* Properties of the pipeline                                              *)
(***************************************************************************)
\* the invocation of the trace entry with key id (the traces of the model
\* hold one invocation per entry)
nodeInvocation(id) ==
    invocationsOf(dataMap[CHOOSE e \in DOMAIN dataMap : dataMap[e].id = id])[1]

\* the key lies inside a detected range, after its trigger
inRange(id) ==
    \E k \in DOMAIN callbackRanges :
        callbackRanges[k].startId < id /\ id < callbackRanges[k].endId

\* the key is the one of a range's trigger
isTrigger(id) ==
    \E k \in DOMAIN callbackRanges : callbackRanges[k].startId = id

\* C1: an invocation is emitted as a top-level call only if it is from the
\* main actor, its key lies inside no detected range and it is not the
\* trigger of a range.
C1_TopLevelOnlyOutsideRegions ==
    pc = "done" =>
        \A i \in DOMAIN output.main :
            /\ isFromMain(nodeInvocation(output.main[i].id), mainAddress)
            /\ ~inRange(output.main[i].id)
            /\ ~isTrigger(output.main[i].id)

\* the flash-loan bracket: the first entry is a main-actor call to flashLoan,
\* the entries that follow have the next keys and are main-actor calls to
\* other methods of other contracts
BracketTrace ==
    /\ Len(dataMap) >= 2
    /\ isFromMain(invocationsOf(dataMap[1])[1], mainAddress)
    /\ invocationsOf(dataMap[1])[1].decodedMethod.name = S_flashLoan
    /\ \A e \in 2..Len(dataMap) :
        LET inv == invocationsOf(dataMap[e])[1] IN
        /\ dataMap[e].id = dataMap[1].id + (e - 1)
        /\ e - 1 < EstimateRange
        /\ isFromMain(inv, mainAddress)
        /\ inv.decodedMethod.name # S_flashLoan
        /\ addrToLowerCase(IF inv.to # "" THEN inv.to ELSE inv.address)
               # addrToLowerCase(mainAddress)

\* C2: on a flash-loan bracket the run ends with exactly one callback region,
\* of the flash-loan-style kind, that holds the calls of the k entries after
\* the trigger, one call per entry, in trace order.
C2_FlashLoanBracket ==
    (pc \in {"done", "failed"} /\ BracketTrace) =>
        /\ pc = "done"
        /\ Len(callbackRanges) = 1
        /\ Len(callbacks) = 1
        /\ callbacks[1][1] = "aave_flashloan"
        /\ Len(callbacks[1][2]) = Len(dataMap) - 1
        /\ \A k \in DOMAIN callbacks[1][2] : callbacks[1][2][k].id = dataMap[k + 1].id

\* C3: the main replay routine holds the statements of the top-level calls
\* in trace order: the keys of the statements ascend.
C3_TraceOrder ==
    pc = "done" =>
        \A i, j \in DOMAIN output.main :
            i < j => output.main[i].id < output.main[j].id

\* the top-level call built from the entry with key id
callOf(id) ==
    methodCalls[CHOOSE i \in DOMAIN methodCalls : methodCalls[i].id = id]

\* the hex digits of a payload: what follows "0x", nothing for '0x' or undefined
payloadOf(callData) == IF Len(callData) >= 2 THEN Tail(callData) ELSE <<>>

\* the call carries a non-zero native value
nonZeroValue(call) == call.value \notin {"", "0"}

C5_EveryCallRendered ==
    pc = "done" =>
        /\ Len(output.main) = Len(methodCalls)
        /\ \A i \in DOMAIN methodCalls :
            \E j \in DOMAIN output.main :
                /\ output.main[j].id = methodCalls[i].id
                /\ output.main[j].form \in {"raw", "value", "typed"}

\* C5 at work: calls that ended in three different ways (a plain transfer
\* without selector, an unresolved selector, a pre-decoded method) are all
\* rendered
C5_Witness ==
    /\ pc = "done"
    /\ Len(output.main) = 3
    /\ \E i, j, k \in DOMAIN methodCalls :
        /\ methodCalls[i].methodName = S_unknown
        /\ methodCalls[j].signature = Null
        /\ methodCalls[k].methodName = S_transfer
    /\ \A j \in DOMAIN output.main : output.main[j].form # "none"

\* the invocation has a selector that nothing resolves: it is not
\* pre-decoded, its target has no local ABI, and the resolver has cached null
\* for the selector (neither registry gave a signature)
unresolvable(inv) ==
    /\ inv.decodedMethod.name = <<>>
    /\ ~falsy(inv.selector)
    /\ loadContractABI(IF inv.to # "" THEN inv.to ELSE inv.address) = <<>>
    /\ mapHas(signatureCache, inv.selector)
    /\ ~mapGet(signatureCache, inv.selector).found

\* C6: a main-actor invocation with an unresolvable selector gives exactly
\* one top-level call and exactly one statement, a raw low-level call named
\* after the selector whose hex literal is the payload of the trace.
C6_UnresolvableSelectorIsRaw ==
    pc = "done" =>
        \A e \in DOMAIN dataMap :
            LET inv == invocationsOf(dataMap[e])[1]
                id == dataMap[e].id
            IN  (isFromMain(inv, mainAddress) /\ unresolvable(inv)) =>
                    /\ Cardinality({i \in DOMAIN methodCalls : methodCalls[i].id = id}) = 1
                    /\ Cardinality({j \in DOMAIN output.main : output.main[j].id = id}) = 1
                    /\ \A j \in DOMAIN output.main :
                        output.main[j].id = id =>
                            /\ output.main[j].form = "raw"
                            /\ output.main[j].methodName = S_unknownFunction_ \o inv.selector
                            /\ payloadOf(inv.callData) # <<>> =>
                                   output.main[j].hex = payloadOf(inv.callData)

\* C6 at work: the trace of one invocation, both registries asked, neither
\* has the selector, and the routine is the one raw call with the payload
C6_Witness ==
    /\ pc = "done"
    /\ Len(dataMap) = 1
    /\ unresolvable(invocationsOf(dataMap[1])[1])
    /\ invocationsOf(dataMap[1])[1].callData = UnknownSelector \o <<"abcdef">>
    /\ registryCalls = <<"4byte", "etherface">>
    /\ Len(output.main) = 1
    /\ output.main[1].form = "raw"
    /\ output.main[1].hex = <<"12345678", "abcdef">>

\* the resolver holds a signature for the invocation's selector, and the
\* payload does not decode against the parameter types of that signature
resolvedButUndecodable(inv, cache) ==
    /\ inv.decodedMethod.name = <<>>
    /\ ~falsy(inv.selector)
    /\ loadContractABI(IF inv.to # "" THEN inv.to ELSE inv.address) = <<>>
    /\ mapHas(cache, inv.selector)
    /\ mapGet(cache, inv.selector).found
    /\ strLength(inv.callData) > 10
    /\ ~abiDecodes(mapGet(cache, inv.selector).parameters, sliceParams(inv.callData))

\* the decoded call carries the resolver's name and signature, and the call
\* data as its one raw parameter
keepsResolvedSignature(inv, cache, call) ==
    resolvedButUndecodable(inv, cache) =>
        /\ call.methodName = mapGet(cache, inv.selector).functionName
        /\ call.signature = mapGet(cache, inv.selector).textSignature
        /\ call.params = rawBytesParam(inv.callData)

\* C10: whenever a call is decoded, at top level or inside a callback range,
\* from a selector the resolver has a signature for and a payload that does
\* not decode against it, the decoded call keeps the resolved name and
\* signature and only its parameters are the raw reconstruction.
C10_KeepsResolvedSignature ==
    [][ /\ (pc = "process" /\ Len(methodCalls') = Len(methodCalls) + 1) =>
            keepsResolvedSignature(
                invocationAt(dataMap, processItems(dataMap, mainAddress)[pk]),
                signatureCache',
                methodCalls'[Len(methodCalls')])
        /\ (pc = "extract" /\ Len(callsInCallback') = Len(callsInCallback) + 1) =>
            keepsResolvedSignature(
                invocationAt(dataMap, rangeItems(dataMap, mainAddress, callbackRanges[rk])[xk]),
                signatureCache',
                callsInCallback'[Len(callsInCallback')])
      ]_vars

(***************************************************************************)
(* Enrichment: traces that call many addresses                             *)
(***************************************************************************)
\* a wide trace: a flash-loan trigger followed by one transfer to each of
\* n - 1 further addresses, all from the main address and all inside the
\* trigger's range
EnrichInit ==
    LET address == <<"0xa1", "0xa2", "0xa3", "0xa4", "0xa5", "0xa6", "0xa7", "0xa8",
                     "0xa9", "0xa10", "0xa11", "0xa12">>
        wideTrace(n) ==
            [k \in 1..n |->
                mkEntry(k - 1, "singular",
                        mkInvocation("short", MainAddress, address[k],
                                     IF k = 1 THEN DecodedFlashLoan ELSE DecodedTransfer,
                                     <<>>, <<>>, "0"))]
    IN  PipelineStart({wideTrace(n) : n \in 1..MaxAddresses}, WithMain,
                      {NoTokens,
                       [erc20 |-> {"0xa2", "0xa3"}, pair |-> {"0xa10"},
                        throws |-> {"0xa4"}]})

EnrichSpec == EnrichInit /\ [][Next]_vars

\* C14: whatever order the lookups of a batch complete in, the address
\* constants are emitted in the order of the address registry, each with the
\* comment of what the chain answers for its address
C14_EmissionInRegistryOrder ==
    pc = "done" =>
        output.variables =
            [k \in DOMAIN addressRegistry |->
                [varName |-> varToUpperCase(addressRegistry[k][2]),
                 address |-> addressRegistry[k][1],
                 comment |-> generateAddressComment(
                                 fetchTokenInfo(addressRegistry[k][1], tokenResponses))]]

\* C14 (amended): the address constants are the registry entries, each once
\* and each with the comment of what the chain answers for its address, in
\* the string order of their variable names; that is the order of the
\* registry as long as it holds fewer than ten addresses.  Nothing of it
\* depends on the order the lookups completed in.
C14_EmissionInVariableNameOrder ==
    pc = "done" =>
        /\ Len(output.variables) = Len(addressRegistry)
        /\ \A e \in DOMAIN addressRegistry :
             \E k \in DOMAIN output.variables :
                /\ output.variables[k].address = addressRegistry[e][1]
                /\ output.variables[k].varName = varToUpperCase(addressRegistry[e][2])
                /\ output.variables[k].comment =
                     generateAddressComment(fetchTokenInfo(addressRegistry[e][1], tokenResponses))
        /\ \A i, j \in DOMAIN output.variables :
             i < j => lexLess(digits(output.variables[i].varName[2]),
                              digits(output.variables[j].varName[2]))
        /\ Len(addressRegistry) < 10 =>
             \A k \in DOMAIN addressRegistry :
                output.variables[k].address = addressRegistry[k][1]

\* ten addresses are registered, and two lookups of the batch completed in
\* the reverse of the registry order
C14_Witness ==
    /\ pc = "done"
    /\ Len(addressRegistry) >= 10
    /\ \E i, j \in DOMAIN tokenInfoMap, a, b \in DOMAIN addressRegistry :
         /\ i < j
         /\ b < a
         /\ tokenInfoMap[i][1] = addressRegistry[a][1]
         /\ tokenInfoMap[j][1] = addressRegistry[b][1]
    /\ \E k \in DOMAIN output.variables : output.variables[k].comment # <<>>

(***************************************************************************)
(* Malformed input                                                         *)
(***************************************************************************)
\* process or generateFoundryTest is called with or without a main address,
\* on a trace file with or without a dataMap.  The traces hold the call in
\* the plural field (from which the main address can be determined), the
\* flash-loan trigger and the plain transfer.
InputInit ==
    PipelineStart(
        tracesOf({t \in Templates :
                     /\ t.inv.from = MainAddress
                     /\ t.inv.callData \in {<<>>, TransferSelector \o <<"W", "W">>}},
                 {1}),
        [mainAddress : {"", MainAddress}, hasDataMap : BOOLEAN, pc : {"start", "generate"}],
        {NoTokens})

InputSpec == InputInit /\ [][Next]_vars

FaultInit ==
    PipelineStart(
        tracesOf({t \in Templates :
                     /\ t.inv.from = MainAddress
                     /\ t.inv.callData # <<"0x">>
                     /\ t.inv.value # "5"},
                 {1}),
        WithMain,
        {[erc20 |-> {"0x2b"}, pair |-> {"0x3c"}, throws |-> {}],
         [erc20 |-> {"0x2b"}, pair |-> {}, throws |-> {"0x3c"}]})

FaultSpec == FaultInit /\ [][Next]_vars

C17_FieldFormsAndNamings ==
    /\ pc # "failed"
    /\ \A k \in DOMAIN methodCalls :
         methodCalls[k].to = targetOf(nodeInvocation(methodCalls[k].id))
    /\ \A k \in DOMAIN callsInCallback :
         callsInCallback[k].to = targetOf(nodeInvocation(callsInCallback[k].id))
    /\ pc \in {"extract", "done"} =>
         \A e \in DOMAIN dataMap :
            isFromMain(nodeInvocation(dataMap[e].id), mainAddress) =>
               \E k \in DOMAIN methodCalls : methodCalls[k].id = dataMap[e].id

(***************************************************************************)
(* Callback handlers                                                       *)
(***************************************************************************)
\* the handler a region kind asks for; <<>> where the vocabulary names none
handlerOfKind(kind) ==
    CASE kind = "aave_flashloan" -> S_executeOperation
      [] kind = "balancer_flashloan" -> S_receiveFlashLoan
      [] kind = "dydx_flashloan" -> S_callFunction
      [] kind = "morpho_blue_callback" -> S_onMorphoFlashLoan
      [] kind = "uniswap_v3_swap" -> S_uniswapV3SwapCallback
      [] kind = "uniswap_v3_flash" -> S_uniswapV3FlashCallback
      [] OTHER -> <<>>

\* the kinds, as the classifier names them, of the regions of the trace in
\* which the main actor makes a call
kindsPresent ==
    {detectCallbackType(callbackRanges[k].methodName) :
        k \in {r \in DOMAIN callbackRanges :
                  rangeItems(dataMap, mainAddress, callbackRanges[r]) # <<>>}}

\* C18: the output holds one handler for each kind of region present and no
\* other handler, and the handler of a kind has the method name of that kind
C18_OneHandlerPerKind ==
    pc = "done" =>
        /\ \A kind \in kindsPresent :
             /\ Cardinality({h \in DOMAIN output.callbacks :
                                output.callbacks[h].type = kind}) = 1
             /\ \A h \in DOMAIN output.callbacks :
                  output.callbacks[h].type = kind /\ handlerOfKind(kind) # <<>>
                     => output.callbacks[h].functionName = handlerOfKind(kind)
        /\ \A h \in DOMAIN output.callbacks : output.callbacks[h].type \in kindsPresent

(***************************************************************************)
(* Interface names                                                         *)
(***************************************************************************)
\* traces of two entries that each hold two main-address invocations in the
\* plural field: calls of transfer and of flashLoan on two contracts
InterfaceInit ==
    LET invocation ==
            {mkInvocation("short", MainAddress, to, decodedMethod, <<>>, <<>>, "0") :
                to \in {"0x2b", "0x4d"}, decodedMethod \in {DecodedTransfer, DecodedFlashLoan}}
    IN  PipelineStart(
            {[e \in 1..2 |-> [id |-> e - 1, hasInvocations |-> TRUE,
                              invocations |-> f[e], invocation |-> <<>>]] :
                f \in [1..2 -> [1..2 -> invocation]]},
            WithMain, {NoTokens})

InterfaceSpec == InterfaceInit /\ [][Next]_vars

\* C19: two addresses that are called with the same set of signatures are
\* given the same interface name, and one interface of that name is declared
C19_SameSignaturesShareInterface ==
    pc = "done" =>
        \A a, b \in DOMAIN contracts :
            {contracts[a][2][k] : k \in DOMAIN contracts[a][2]}
                = {contracts[b][2][k] : k \in DOMAIN contracts[b][2]}
            =>
            /\ generateInterfaceName(contracts[a][1], contracts[a][2])
                 = generateInterfaceName(contracts[b][1], contracts[b][2])
            /\ Cardinality({i \in DOMAIN output.interfaces :
                    output.interfaces[i].name
                        = generateInterfaceName(contracts[a][1], contracts[a][2])}) = 1

(***************************************************************************)
(* TraceParser.extractCallbackData                                         *)
(***************************************************************************)
RECURSIVE collectCallbackCalls(_, _, _, _)
\* the loop of extractCallbackData over the entries still to visit;
\* callbackCalls holds the invocations collected so far.  The loop runs over
\* the keys callId + 1 .. callId + 100 and visits the entries that exist, in
\* ascending key order: entries is that sequence.  An entry without the
\* plural field is skipped by the test of line 286.
collectCallbackCalls(trace, main, entries, callbackCalls) ==
    IF entries = <<>> THEN callbackCalls
    ELSE IF ~trace[Head(entries)].hasInvocations
        THEN collectCallbackCalls(trace, main, Tail(entries), callbackCalls)
    ELSE IF Len(callbackCalls
                  \o SelectSeq(invocationsOf(trace[Head(entries)]),
                               LAMBDA inv : isFromMain(inv, main))) > 20
        THEN callbackCalls \o SelectSeq(invocationsOf(trace[Head(entries)]),
                                        LAMBDA inv : isFromMain(inv, main))
    ELSE collectCallbackCalls(trace, main, Tail(entries),
                              callbackCalls
                                 \o SelectSeq(invocationsOf(trace[Head(entries)]),
                                              LAMBDA inv : isFromMain(inv, main)))

\* TraceParser.extractCallbackData(callData, dataMap, callId, mainAddress)
extractCallbackData(callData, trace, callId, main) ==
    LET entries == SelectSeq([e \in DOMAIN trace |-> e],
                             LAMBDA e : callId + 1 <= trace[e].id /\ trace[e].id <= callId + 100)
        callbackCalls == collectCallbackCalls(trace, main, entries, <<>>)
    IN  IF callbackCalls = <<>> THEN NoCallbackData
        ELSE [found |-> TRUE,
              calls |-> callbackCalls,
              startId |-> callId + 1,
              endId |-> callId + (IF Len(callbackCalls) + 10 < 100
                                  THEN Len(callbackCalls) + 10 ELSE 100)]

\* the entries that follow a triggering call with key 10: n entries with keys
\* 11, 12, ..., each holding `width` invocations from the main address in the
\* plural field; the entry at position `single`, if there is one, holds one
\* such invocation in the singular field instead
CallbackDataInit ==
    LET inv == mkInvocation("short", MainAddress, "0x2b", NoDecodedMethod, <<>>, <<>>, "0")
        followingEntries(n, width, single) ==
            [k \in 1..n |->
                [id |-> 10 + k,
                 hasInvocations |-> k # single,
                 invocations |-> IF k # single THEN [j \in 1..width |-> inv] ELSE <<>>,
                 invocation |-> IF k = single THEN <<inv>> ELSE <<>>]]
    IN  PipelineStart({followingEntries(n, width, single) :
                          n \in 0..MaxFollowing, width \in 1..2, single \in 0..2},
                      {[mainAddress |-> MainAddress, hasDataMap |-> TRUE, pc |-> "idle"]},
                      {NoTokens})

\* extractCallbackData is called for the triggering call
ExtractCallbackData ==
    /\ pc = "idle"
    /\ dataMap # <<>>
    /\ callbackData = NoCallbackData
    /\ callbackData' = extractCallbackData(<<"0x">>, dataMap, 10, mainAddress)
    /\ UNCHANGED <<pipelineVars, classifierVars, decoderVars, lookups, registrations,
                   chainCache, clock, chainCalls, requests, batchAddresses, inFlight>>

CallbackDataSpec == CallbackDataInit /\ [][ExtractCallbackData]_vars

\* C20: extractCallbackData returns at most 20 callback calls
C20_AtMostTwentyCalls == Len(callbackData.calls) <= 20

(***************************************************************************)
(* The chain list on its own: getAllChains is called up to MaxChainCalls   *)
(* times on a fresh ChainlistAPI while the clock advances                  *)
(***************************************************************************)
\* one call of getAllChains; the fetch, if made, takes no time or ten
\* minutes.  A call answered from the cache makes no fetch: one choice of the
\* unused inputs stands for all of them.
GetAllChains ==
    /\ Len(chainCalls) < MaxChainCalls
    /\ \E outcome \in FetchOutcomes : \E later \in {clock, clock + 10 * 60 * 1000} :
        LET res == getAllChains(chainCache, clock, outcome, later)
        IN  /\ res.fetched \/ (later = clock /\ outcome = "throw")
            /\ chainCache' = res.cache
            /\ clock' = IF res.fetched THEN later ELSE clock
            /\ chainCalls' = Append(chainCalls,
                                    [cached |-> chainCache, now |-> clock,
                                     outcome |-> IF res.fetched THEN outcome ELSE "none",
                                     threw |-> res.threw, result |-> res.result])
    /\ UNCHANGED <<pipelineVars, classifierVars, decoderVars, lookups, registrations,
                   callbackData, requests, batchAddresses, inFlight>>

\* ten minutes pass between two calls
AdvanceClock ==
    /\ clock < MaxTicks * 10 * 60 * 1000
    /\ clock' = clock + 10 * 60 * 1000
    /\ UNCHANGED <<pipelineVars, classifierVars, decoderVars, lookups, registrations,
                   callbackData, chainCache, chainCalls, requests,
                   batchAddresses, inFlight>>

\* new ChainlistAPI(): this.cache = new Map()
ChainlistInit ==
    /\ PipelineIdle /\ DecoderIdle /\ UnitIdle
    /\ cbName = <<>> /\ cbType = "pending"

ChainlistSpec == ChainlistInit /\ [][GetAllChains \/ AdvanceClock]_vars

\* C21: a call of getAllChains whose fetch fails returns the data of the entry
\* cached before the call, expired or not, without raising; it raises only
\* when no entry was cached before the call.
C21_FailedFetchFallsBackToCache ==
    \A j \in DOMAIN chainCalls :
        LET c == chainCalls[j]
        IN  c.outcome = "throw" =>
                IF c.cached # <<>>
                THEN ~c.threw /\ c.result = c.cached[1].data
                ELSE c.threw

\* C21 at work: a list is fetched and cached, more than the expiry time
\* passes, and the next fetch fails: the call returns the expired list
C21_Witness ==
    /\ Len(chainCalls) = 2
    /\ chainCalls[1].outcome = "chainsA"
    /\ chainCalls[2].outcome = "throw"
    /\ chainCalls[2].cached # <<>>
    /\ chainCalls[2].now - chainCalls[2].cached[1].timestamp >= CacheExpiry
    /\ ~chainCalls[2].threw
    /\ chainCalls[2].result = "chainsA"

(***************************************************************************)
(* C22: the names addr1, addr2, ... follow the order of first encounter    *)
(***************************************************************************)
\* the distinct lower-cased targets of the given invocations, in the order
\* in which they are first met
RECURSIVE targetsInOrder(_, _, _)
targetsInOrder(trace, items, seen) ==
    IF items = <<>> THEN seen
    ELSE targetsInOrder(trace, Tail(items),
                        setAdd(seen, addrToLowerCase(targetOf(invocationAt(trace, Head(items))))))

\* the registry that names the N-th of the given addresses addrN
namedInOrder(addresses) == [n \in DOMAIN addresses |-> <<addresses[n], addrVar(n)>>]

\* C22: with the main-address invocations of the trace taken in the order of
\* the keys of their entries, the N-th distinct target address is registered
\* under addrN: while the trace is walked the registry names the targets met
\* so far, and from the end of the walk on it names all of them, the ones
\* inside callback ranges included.
C22_NamesFollowFirstEncounter ==
    LET items == processItems(dataMap, mainAddress)
        walked == SubSeq(items, 1, IF pk - 1 < Len(items) THEN pk - 1 ELSE Len(items))
    IN  /\ pc = "process" =>
              addressRegistry = namedInOrder(targetsInOrder(dataMap, walked, <<>>))
        /\ pc \in {"extract", "done"} =>
              addressRegistry = namedInOrder(targetsInOrder(dataMap, items, <<>>))

\* C22 at work: the trigger calls 0x3c, then two calls inside its range go to
\* 0x2b and to 0x2B: 0x3c is addr1 and 0x2b is addr2, and the run is rendered
C22_Witness ==
    /\ pc = "done"
    /\ Len(dataMap) = 3
    /\ dataMap[2].id = 1
    /\ targetOf(invocationsOf(dataMap[1])[1]) = "0x3c"
    /\ targetOf(invocationsOf(dataMap[2])[1]) = "0x2b"
    /\ targetOf(invocationsOf(dataMap[3])[1]) = "0x2B"
    /\ \A e \in DOMAIN dataMap : isFromMain(invocationsOf(dataMap[e])[1], mainAddress)
    /\ addressRegistry = <<<<"0x3c", addrVar(1)>>, <<"0x2b", addrVar(2)>>>>
    /\ Len(callbacks) = 1

(***************************************************************************)
(* C23: callback ranges and the triggers inside them                       *)
(***************************************************************************)
\* C23: the detected callback ranges never nest or overlap: no range starts
\* at a trigger that lies inside another detected range.
C23_RangesNeverOverlap ==
    \A i, j \in DOMAIN callbackRanges :
        i # j => ~(/\ callbackRanges[i].startId < callbackRanges[j].startId
                   /\ callbackRanges[j].startId < callbackRanges[i].endId)

(***************************************************************************)
(* C24: the registries are frozen once code generation begins              *)
(***************************************************************************)
\* the trace walk and every range walk are over: what remains of the run is
\* the enrichment of the addresses and the rendering
generationBegun == pc = "done" \/ (pc = "extract" /\ rk > Len(callbackRanges))

\* C24: once the walks are over no step of the run changes the address
\* registry, its counter or the contract interface set, and the rendered
\* interfaces and state variables are those of the registries as they stand
\* at the end of the run.
C24_RegistriesFrozenOnceGenerationBegins ==
    /\ [][generationBegun =>
              /\ addressRegistry' = addressRegistry
              /\ addressCounter' = addressCounter
              /\ contracts' = contracts]_vars
    /\ [](pc = "done" =>
              /\ output.interfaces = generateInterfaces(contracts)
              /\ output.variables = generateStateVariables(addressRegistry, tokenInfoMap))

\* C24 at work: a run with a callback range is rendered from two registered
\* addresses and a declared interface
C24_Witness ==
    /\ pc = "done"
    /\ Len(addressRegistry) >= 2
    /\ Len(contracts) >= 1
    /\ Len(callbacks) >= 1
    /\ Len(output.variables) = Len(addressRegistry)
    /\ Len(output.interfaces) >= 1

(***************************************************************************)
(* The registry clients on their own: FourByteAPI.lookupFunctionSignature  *)
(* and EtherfaceAPI.lookupFunctionSignature, each over its makeRequest,    *)
(* called up to MaxRequests times one after the other                      *)
(***************************************************************************)
\* what the service does with a request: answers with JSON (a hit or an
\* empty result), answers with text that is not JSON, fails at the
\* connection, or accepts the request and never answers
Services == {"hit", "empty", "garbled", "errors", "silent"}

\* this.cache of a client: what the earlier lookups of `selector` through
\* `api` have set ("none" when there is no entry).  A lookup sets the cache
\* after a parsed answer only.
clientCache(api, selector) ==
    LET set == {k \in DOMAIN requests :
                   /\ requests[k].api = api /\ requests[k].selector = selector
                   /\ requests[k].state = "returned"
                   /\ requests[k].service \in {"hit", "empty"}}
    IN  IF set = {} THEN "none"
        ELSE requests[CHOOSE k \in set : \A l \in set : k <= l].result

\* lookupFunctionSignature(hexSelector) up to its await: a cached selector
\* returns at once, otherwise makeRequest calls https.get and the lookup
\* waits for the promise to settle
LookupFunctionSignature ==
    /\ Len(requests) < MaxRequests
    /\ \A k \in DOMAIN requests : requests[k].state = "returned"
    /\ \E api \in {"4byte", "etherface"}, selector \in {UnknownSelector, TransferSelector},
          service \in Services :
        requests' =
            Append(requests,
                   IF clientCache(api, selector) # "none"
                   THEN [api |-> api, selector |-> selector, service |-> "cache",
                         state |-> "returned", result |-> clientCache(api, selector)]
                   ELSE [api |-> api, selector |-> selector, service |-> service,
                         state |-> "pending", result |-> "none"])
    /\ UNCHANGED <<pipelineVars, classifierVars, decoderVars, lookups, registrations,
                   callbackData, chainCache, clock, chainCalls, batchAddresses, inFlight>>

\* res.on('end'): JSON.parse resolves or rejects the promise; the lookup
\* caches and returns the first result, caches and returns null, or catches
\* the rejection and returns null
ResponseEnd ==
    /\ \E k \in DOMAIN requests :
        /\ requests[k].state = "pending"
        /\ requests[k].service \in {"hit", "empty", "garbled"}
        /\ requests' = [requests EXCEPT ![k].state = "returned",
                                        ![k].result = IF requests[k].service = "hit"
                                                      THEN "found" ELSE "null"]
    /\ UNCHANGED <<pipelineVars, classifierVars, decoderVars, lookups, registrations,
                   callbackData, chainCache, clock, chainCalls, batchAddresses, inFlight>>

\* .on('error'): the promise is rejected; the lookup catches and returns null
RequestError ==
    /\ \E k \in DOMAIN requests :
        /\ requests[k].state = "pending"
        /\ requests[k].service = "errors"
        /\ requests' = [requests EXCEPT ![k].state = "returned", ![k].result = "null"]
    /\ UNCHANGED <<pipelineVars, classifierVars, decoderVars, lookups, registrations,
                   callbackData, chainCache, clock, chainCalls, batchAddresses, inFlight>>

\* new FourByteAPI(), new EtherfaceAPI(): empty caches, nothing requested
RequestInit ==
    /\ PipelineIdle /\ DecoderIdle /\ UnitIdle
    /\ cbName = <<>> /\ cbType = "pending"

\* the event loop delivers every event that has occurred; the caller is free
\* to make no further lookup
RequestSpec ==
    /\ RequestInit
    /\ [][LookupFunctionSignature \/ ResponseEnd \/ RequestError]_vars
    /\ WF_vars(ResponseEnd)
    /\ WF_vars(RequestError)

\* C25: every lookup sent to an external service completes, with a result or
\* with its not-found result, whatever the service does: a lookup that is
\* waiting for its answer eventually returns.
C25_EveryLookupCompletes ==
    (\E k \in DOMAIN requests : requests[k].state = "pending")
        ~> (\A k \in DOMAIN requests : requests[k].state = "returned")

(***************************************************************************)
(* C26: call data too short to hold a selector                             *)
(***************************************************************************)
\* C26 as stated: call data shorter than 5 bytes (fewer than 12 characters
\* with the 0x prefix: a selector and at least one byte of payload) is
\* answered with null and no registry is asked.
C26_ShorterThanFiveBytesIsNull ==
    (decOutput.done /\ strLength(decInput.callData) < 12)
        => /\ decOutput.result = NoDecodedCall
           /\ ~decOutput.threw
           /\ registryCalls = <<>>

\* C26 amended: call data that is absent or shorter than the 4 bytes of a
\* selector (fewer than 10 characters with the 0x prefix) is answered with
\* null, whatever the local ABI and the cache hold, and no registry is
\* asked; call data that is exactly a selector is decoded like any other.
C26_ShorterThanSelectorIsNull ==
    (decOutput.done /\ strLength(decInput.callData) < 10)
        => /\ decOutput.result = NoDecodedCall
           /\ ~decOutput.threw
           /\ registryCalls = <<>>

\* C26 at work: three bytes of call data for the contract with a local ABI
\* are answered with null without a registry call
C26_Witness ==
    /\ decOutput.done
    /\ decInput.callData = <<"0x", "abcdef">>
    /\ decInput.abi = KnownAbi
    /\ decOutput.result = NoDecodedCall
    /\ registryCalls = <<>>

(***************************************************************************)
(* TokenManager.batchFetchTokenInfo on its own, lookup by lookup: the      *)
(* lookups of a batch are started together and complete one at a time      *)
(***************************************************************************)
\* the loop head with i < uniqueAddresses.length: batch.map starts a lookup
\* for every address of the slice
StartBatch ==
    /\ pc = "batch"
    /\ batchStart <= Len(setOf(batchAddresses))
    /\ LET uniqueAddresses == setOf(batchAddresses)
           last == IF batchStart + BatchSize - 1 < Len(uniqueAddresses)
                   THEN batchStart + BatchSize - 1 ELSE Len(uniqueAddresses)
       IN  inFlight' = inFlight \cup {uniqueAddresses[k] : k \in batchStart..last}
    /\ pc' = "await"
    /\ UNCHANGED <<dataMap, mainAddress, pk, modelVars, registryCalls, callbackRanges,
                   rk, xk, callsInCallback, callbacks, output, hasDataMap, errors,
                   tokenResponses, tokenInfoMap, batchStart, classifierVars,
                   decoderVars, lookups, registrations, callbackData, chainCache,
                   clock, chainCalls, requests, batchAddresses>>

\* one lookup of the batch completes: fetchTokenInfo returns (it catches
\* what its lookups raise) and a non-null result is set in the Map
CompleteLookup ==
    /\ \E address \in inFlight :
        /\ inFlight' = inFlight \ {address}
        /\ tokenInfoMap' =
              IF fetchTokenInfo(address, tokenResponses).found
              THEN mapSet(tokenInfoMap, address, fetchTokenInfo(address, tokenResponses))
              ELSE tokenInfoMap
    /\ UNCHANGED <<dataMap, mainAddress, pc, pk, modelVars, registryCalls, callbackRanges,
                   rk, xk, callsInCallback, callbacks, output, hasDataMap, errors,
                   tokenResponses, batchStart, classifierVars, decoderVars, lookups,
                   registrations, callbackData, chainCache, clock, chainCalls, requests,
                   batchAddresses>>

\* the loop goes on as soon as one lookup of the batch has completed
AwaitAll_first ==
    /\ pc = "await"
    /\ \E k \in DOMAIN setOf(batchAddresses) : setOf(batchAddresses)[k] \notin inFlight
    /\ batchStart' = batchStart + BatchSize
    /\ pc' = IF batchStart + BatchSize <= Len(setOf(batchAddresses)) THEN "batch"
             ELSE "returned"
    /\ UNCHANGED <<dataMap, mainAddress, pk, modelVars, registryCalls, callbackRanges,
                   rk, xk, callsInCallback, callbacks, output, hasDataMap, errors,
                   tokenResponses, tokenInfoMap, classifierVars, decoderVars, lookups,
                   registrations, callbackData, chainCache, clock, chainCalls, requests,
                   batchAddresses, inFlight>>

\* await Promise.all(promises) returns once every lookup of the batch has
\* completed; after the delay the loop goes on with i += batchSize
AwaitAll ==
    /\ pc = "await"
    /\ inFlight = {}
    /\ batchStart' = batchStart + BatchSize
    /\ pc' = IF batchStart + BatchSize <= Len(setOf(batchAddresses)) THEN "batch"
             ELSE "returned"
    /\ UNCHANGED <<dataMap, mainAddress, pk, modelVars, registryCalls, callbackRanges,
                   rk, xk, callsInCallback, callbacks, output, hasDataMap, errors,
                   tokenResponses, tokenInfoMap, classifierVars, decoderVars, lookups,
                   registrations, callbackData, chainCache, clock, chainCalls, requests,
                   batchAddresses, inFlight>>

\* batchFetchTokenInfo(addresses) is called: up to MaxBatchAddresses
\* addresses, the first of them possibly listed twice
BatchInit ==
    LET address == <<"0xa1", "0xa2", "0xa3", "0xa4", "0xa5", "0xa6", "0xa7", "0xa8",
                     "0xa9", "0xa10", "0xa11", "0xa12", "0xa13", "0xa14">>
    IN  /\ \E n \in 0..MaxBatchAddresses :
              batchAddresses \in {SubSeq(address, 1, n),
                                  SubSeq(address, 1, n) \o SubSeq(address, 1, IF n > 0 THEN 1 ELSE 0)}
        /\ tokenResponses \in
              {NoTokens, [erc20 |-> {"0xa2", "0xa11"}, pair |-> {}, throws |-> {"0xa4"}]}
        /\ pc = IF batchAddresses = <<>> THEN "returned" ELSE "batch"
        /\ inFlight = {}
        /\ tokenInfoMap = <<>>
        /\ batchStart = 1
        /\ dataMap = <<>> /\ mainAddress = "" /\ pk = 1 /\ contracts = <<>>
        /\ methodCalls = <<>> /\ addressRegistry = <<>> /\ addressCounter = 0
        /\ signatureCache = <<>> /\ registryCalls = <<>> /\ callbackRanges = <<>>
        /\ rk = 1 /\ xk = 1 /\ callsInCallback = <<>> /\ callbacks = <<>>
        /\ output = EmptyOutput /\ hasDataMap = TRUE /\ errors = <<>>
        /\ lookups = <<>> /\ registrations = <<>> /\ callbackData = NoCallbackData
        /\ chainCache = <<>> /\ clock = 0 /\ chainCalls = <<>> /\ requests = <<>>
        /\ cbName = <<>> /\ cbType = "pending"
        /\ DecoderIdle

BatchSpec == BatchInit /\ [][StartBatch \/ CompleteLookup \/ AwaitAll]_vars

\* C27: at most BatchSize lookups are in flight at any time, and a step that
\* starts lookups is taken only when no lookup is in flight.
C27_AtMostOneBatchInFlight ==
    /\ [](Cardinality(inFlight) <= BatchSize)
    /\ [][inFlight' \ inFlight # {} => inFlight = {}]_vars

\* C27 at work: the ten lookups of the first batch have completed and the
\* lookups of the second batch are in flight
C27_Witness ==
    /\ pc = "await"
    /\ batchStart = BatchSize + 1
    /\ Len(setOf(batchAddresses)) > BatchSize
    /\ inFlight # {}
    /\ \A address \in inFlight :
          \E k \in (BatchSize + 1)..Len(setOf(batchAddresses)) :
              setOf(batchAddresses)[k] = address
    /\ Len(tokenInfoMap) >= 1

(***************************************************************************)
(* Two flash loans one after the other: a trigger at key 0 with a call at  *)
(* key 1 inside its range, and a trigger at key 60, beyond the end of the  *)
(* first range, with a call at key 61                                      *)
(***************************************************************************)
RegionsInit ==
    LET trigger == mkInvocation("short", MainAddress, "0x3c", DecodedFlashLoan,
                                <<>>, <<>>, "0")
        inner(to) == mkInvocation("short", MainAddress, to, DecodedTransfer,
                                  TransferSelector, TransferSelector \o <<"W", "W">>, "0")
        second == {trigger, inner("0x2b")}
    IN  PipelineStart(
            {<<mkEntry(0, form[1], trigger), mkEntry(1, form[2], inner(first)),
               mkEntry(60, form[3], later), mkEntry(61, form[4], inner(last))>> :
                form \in [1..4 -> {"singular", "plural"}],
                first \in {"0x2b", "0x4d"}, last \in {"0x2b", "0x4d"}, later \in second},
            WithMain, {NoTokens})

RegionsSpec == RegionsInit /\ [][Next]_vars

\* the callback kind under which generateFoundryTest files a range
kindOf(range) ==
    IF range.type = "flashloan" THEN detectCallbackType(range.methodName) ELSE range.type

\* C28: in the rendered test the handler of a callback kind holds the
\* main-address calls of every range of that kind, in trace order: a call
\* inside a range is in the handler of the range's kind, and the calls of a
\* handler are in ascending key order.
C28_HandlerHoldsEveryRegion ==
    pc = "done" =>
        /\ \A i \in DOMAIN callbackRanges :
              LET items == rangeItems(dataMap, mainAddress, callbackRanges[i])
              IN  \A x \in DOMAIN items :
                     \E h \in DOMAIN output.callbacks :
                        /\ output.callbacks[h].type = kindOf(callbackRanges[i])
                        /\ \E c \in DOMAIN output.callbacks[h].calls :
                              output.callbacks[h].calls[c].id = items[x].id
        /\ \A h \in DOMAIN output.callbacks :
              \A c, d \in DOMAIN output.callbacks[h].calls :
                 c < d => output.callbacks[h].calls[c].id <= output.callbacks[h].calls[d].id

(***************************************************************************)
(* C29: typed calls and the interfaces declared in the output              *)
(***************************************************************************)
\* the output declares an interface of this name that declares this function
declares(name, signature) ==
    \E i \in DOMAIN output.interfaces :
        /\ output.interfaces[i].name = name
        /\ \E s \in DOMAIN output.interfaces[i].signatures :
              output.interfaces[i].signatures[s] = signature

\* C29: in the rendered test every typed call of the main routine and every
\* typed call of a callback handler goes through an interface that the
\* output declares and that declares the called function.
C29_TypedCallsUseDeclaredInterfaces ==
    pc = "done" =>
        /\ \A k \in DOMAIN methodCalls :
              generateSingleCall(methodCalls[k]).form = "typed"
                 => declares(callInterfaceName(methodCalls[k], contracts),
                             methodCalls[k].signature)
        /\ \A h \in DOMAIN output.callbacks :
              \A c \in DOMAIN output.callbacks[h].calls :
                 LET call == output.callbacks[h].calls[c]
                 IN  call.value \in {"", "0"}
                        => declares(callbackInterfaceName(call, contracts), call.signature)

(***************************************************************************)
(* Traces that spell the address of one contract in both letter cases      *)
(***************************************************************************)
CaseInit ==
    PipelineStart(
        tracesOf({[form |-> "singular",
                   inv |-> mkInvocation("short", MainAddress, to, decodedMethod,
                                        <<>>, <<>>, "0")] :
                     to \in {"0x2b", "0x2B", "0x3c"},
                     decodedMethod \in {DecodedTransfer, DecodedFlashLoan}},
                 {1}),
        WithMain, {NoTokens})

CaseSpec == CaseInit /\ [][Next]_vars

\* C30: the contract interface set holds at most one entry per address
\* whatever the letter case the trace spells it in, under the lower-case key
\* the address registry uses for the address.
C30_OneInterfaceEntryPerAddress ==
    /\ \A a, b \in DOMAIN contracts :
          addrToLowerCase(contracts[a][1]) = addrToLowerCase(contracts[b][1]) => a = b
    /\ \A a \in DOMAIN contracts : mapHas(addressRegistry, contracts[a][1])

====
